---- MODULE Spec2Model ----
(***************************************************************************)
(* Availability / window computation of the boat scheduler.                *)
(*                                                                         *)
(* A JavaScript Date at local midnight is modelled by the number of days   *)
(* since 2025-12-01 (day 0).  An ISO date string "YYYY-MM-DD" is modelled  *)
(* by the sequence of its character codes, and the string comparisons of   *)
(* the source (<, >=, ===) by lexicographic comparison of such sequences.  *)
(***************************************************************************)
EXTENDS Integers, Sequences, FiniteSets, TLC

\* ------------------------------------------------------------------------
\* Bounds of the model
\* ------------------------------------------------------------------------

\* Largest number of ranges in a boat's range list.
MaxRanges == 2

\* Length in days of the long schedule window offered to the pure functions
\* besides the 14-day window of the UI (long enough for a 31-day block).
LongWindowDays == 32

\* ------------------------------------------------------------------------
\* Program constants
\* ------------------------------------------------------------------------

\* Number of days of the visible window (hard-coded in the window scan).
WindowDays == 14

\* Upper clamp of the requested duration in maxDurationFrom.
MaxDurationDays == 30

\* ------------------------------------------------------------------------
\* Date and string helpers
\* ------------------------------------------------------------------------

Max(a, b) == IF a >= b THEN a ELSE b
Min(a, b) == IF a <= b THEN a ELSE b

\* Gregorian calendar behind the Date getters.
IsLeapYear(y) == (y % 4 = 0 /\ y % 100 # 0) \/ y % 400 = 0

DaysInMonth(y, m) ==
    IF m = 2 THEN (IF IsLeapYear(y) THEN 29 ELSE 28)
    ELSE IF m \in {4, 6, 9, 11} THEN 30 ELSE 31

\* <<year, month (1..12), day of month>> of the date n days after the first
\* day of month m of year y.
RECURSIVE CivilFrom(_, _, _)
CivilFrom(y, m, n) ==
    IF n < DaysInMonth(y, m) THEN <<y, m, n + 1>>
    ELSE CivilFrom(IF m = 12 THEN y + 1 ELSE y,
                   IF m = 12 THEN 1 ELSE m + 1,
                   n - DaysInMonth(y, m))

\* Date.getFullYear / getMonth (0-based) / getDate of day number d.
getFullYear(d) == CivilFrom(2025, 12, d)[1]
getMonth(d) == CivilFrom(2025, 12, d)[2] - 1
getDate(d) == CivilFrom(2025, 12, d)[3]

\* new Date(y, m, d) with a 0-based month: the day number of that date.
RECURSIVE DaysBefore(_, _, _, _)
DaysBefore(y0, m0, y, m) ==
    IF y0 = y /\ m0 = m THEN 0
    ELSE DaysInMonth(y0, m0)
         + DaysBefore(IF m0 = 12 THEN y0 + 1 ELSE y0,
                      IF m0 = 12 THEN 1 ELSE m0 + 1, y, m)

NewDate(y, m, d) == DaysBefore(2025, 12, y, m + 1) + d - 1

\* String(n) for a natural number n, as character codes ('0' = 48).
RECURSIVE DecStr(_)
DecStr(n) ==
    IF n < 10 THEN <<48 + n>>
    ELSE DecStr(n \div 10) \o <<48 + (n % 10)>>

\* String(n).padStart(2, "0")
pad2(n) == LET s == DecStr(n) IN IF Len(s) < 2 THEN <<48>> \o s ELSE s

\* `${getFullYear}-${pad2(getMonth + 1)}-${pad2(getDate)}` ('-' = 45)
toISODate(d) ==
    DecStr(getFullYear(d)) \o <<45>> \o pad2(getMonth(d) + 1)
                           \o <<45>> \o pad2(getDate(d))

\* parseInt(x, 10) of a string of decimal digits.
RECURSIVE ParseInt(_)
ParseInt(s) ==
    IF s = <<>> THEN 0
    ELSE 10 * ParseInt(SubSeq(s, 1, Len(s) - 1)) + (s[Len(s)] - 48)

\* fromISODate of a well-formed "YYYY-MM-DD" string: the parsed Date.
fromISODate(s) ==
    LET y == ParseInt(SubSeq(s, 1, 4))
        m == ParseInt(SubSeq(s, 6, 7))
        d == ParseInt(SubSeq(s, 9, 10))
    IN  NewDate(y, m - 1, d)

\* d.setDate(d.getDate() + n) on a copy of d.
addDays(d, n) == d + n

\* JavaScript a < b on strings: code-unit lexicographic order.
RECURSIVE StrLess(_, _)
StrLess(a, b) ==
    IF b = <<>> THEN FALSE
    ELSE IF a = <<>> THEN TRUE
    ELSE IF Head(a) # Head(b) THEN Head(a) < Head(b)
    ELSE StrLess(Tail(a), Tail(b))

\* JavaScript a >= b on strings.
StrGeq(a, b) == ~StrLess(a, b)

\* ------------------------------------------------------------------------
\* Booking utilities of the server-backed scheduler
\* ------------------------------------------------------------------------

\* isBookedForDate with the start day excluded (> instead of >=).
isBookedForDate_StartExclusive(reservationsForBoat, dateIso) ==
    \E i \in 1..Len(reservationsForBoat) :
        /\ StrLess(reservationsForBoat[i].startDate, dateIso)
        /\ StrLess(dateIso, reservationsForBoat[i].endExclusive)

isBookedForDate(reservationsForBoat, dateIso) ==
    \E i \in 1..Len(reservationsForBoat) :
        /\ StrGeq(dateIso, reservationsForBoat[i].startDate)
        /\ StrLess(dateIso, reservationsForBoat[i].endExclusive)

\* The loop of windowFits with the last window day excluded (>= scheduleEnd).
RECURSIVE windowFitsLoop_EndExclusive(_, _, _, _, _, _)
windowFitsLoop_EndExclusive(reservationsForBoat, startDay, durationDays, scheduleStart, scheduleEnd, k) ==
    IF ~(k < durationDays) THEN TRUE
    ELSE LET dd == addDays(startDay, k) IN
         IF dd < scheduleStart \/ dd >= scheduleEnd THEN FALSE
         ELSE IF isBookedForDate(reservationsForBoat, toISODate(dd)) THEN FALSE
         ELSE windowFitsLoop_EndExclusive(reservationsForBoat, startDay,
                  durationDays, scheduleStart, scheduleEnd, k + 1)

\* The loop of windowFits not looking at the start day itself.
RECURSIVE windowFitsLoop_SkipsStartDay(_, _, _, _, _, _)
windowFitsLoop_SkipsStartDay(reservationsForBoat, startDay, durationDays, scheduleStart, scheduleEnd, k) ==
    IF ~(k < durationDays) THEN TRUE
    ELSE LET dd == addDays(startDay, k) IN
         IF k > 0 /\ (dd < scheduleStart \/ dd > scheduleEnd) THEN FALSE
         ELSE IF k > 0 /\ isBookedForDate(reservationsForBoat, toISODate(dd))
         THEN FALSE
         ELSE windowFitsLoop_SkipsStartDay(reservationsForBoat, startDay,
                  durationDays, scheduleStart, scheduleEnd, k + 1)

\* The for loop of windowFits from index k on.
RECURSIVE windowFitsLoop(_, _, _, _, _, _)
windowFitsLoop(reservationsForBoat, startDay, durationDays, scheduleStart, scheduleEnd, k) ==
    IF ~(k < durationDays) THEN TRUE
    ELSE LET dd == addDays(startDay, k) IN
         IF dd < scheduleStart \/ dd > scheduleEnd THEN FALSE
         ELSE IF isBookedForDate(reservationsForBoat, toISODate(dd)) THEN FALSE
         ELSE windowFitsLoop(reservationsForBoat, startDay, durationDays,
                             scheduleStart, scheduleEnd, k + 1)

\* windowFits without the one-day case (durationDays < 1 instead of <= 1).
windowFits_NoOneDayCase(reservationsForBoat, startDay, durationDays, scheduleStart, scheduleEnd) ==
    IF durationDays < 1
    THEN ~isBookedForDate(reservationsForBoat, toISODate(startDay))
    ELSE windowFitsLoop(reservationsForBoat, startDay, durationDays,
                        scheduleStart, scheduleEnd, 0)

windowFits(reservationsForBoat, startDay, durationDays, scheduleStart, scheduleEnd) ==
    IF durationDays <= 1
    THEN ~isBookedForDate(reservationsForBoat, toISODate(startDay))
    ELSE windowFitsLoop(reservationsForBoat, startDay, durationDays,
                        scheduleStart, scheduleEnd, 0)

\* The loop of maxDurationFrom with the last window day excluded.
RECURSIVE maxDurationLoop_EndExclusive(_, _, _, _, _, _, _)
maxDurationLoop_EndExclusive(reservationsForBoat, startDay, max, scheduleStart, scheduleEnd, k, actual) ==
    IF ~(k < max) THEN actual
    ELSE LET d == addDays(startDay, k) IN
         IF d < scheduleStart \/ d >= scheduleEnd THEN actual
         ELSE IF isBookedForDate(reservationsForBoat, toISODate(d)) THEN actual
         ELSE maxDurationLoop_EndExclusive(reservationsForBoat, startDay, max,
                  scheduleStart, scheduleEnd, k + 1, actual + 1)

\* The loop of maxDurationFrom skipping a booked day (continue, not break).
RECURSIVE maxDurationLoop_SkipsBooked(_, _, _, _, _, _, _)
maxDurationLoop_SkipsBooked(reservationsForBoat, startDay, max, scheduleStart, scheduleEnd, k, actual) ==
    IF ~(k < max) THEN actual
    ELSE LET d == addDays(startDay, k) IN
         IF d < scheduleStart \/ d > scheduleEnd THEN actual
         ELSE IF isBookedForDate(reservationsForBoat, toISODate(d))
              THEN maxDurationLoop_SkipsBooked(reservationsForBoat, startDay,
                       max, scheduleStart, scheduleEnd, k + 1, actual)
         ELSE maxDurationLoop_SkipsBooked(reservationsForBoat, startDay, max,
                  scheduleStart, scheduleEnd, k + 1, actual + 1)

\* The for loop of maxDurationFrom from index k on, with `actual` so far.
RECURSIVE maxDurationLoop(_, _, _, _, _, _, _)
maxDurationLoop(reservationsForBoat, startDay, max, scheduleStart, scheduleEnd, k, actual) ==
    IF ~(k < max) THEN actual
    ELSE LET d == addDays(startDay, k) IN
         IF d < scheduleStart \/ d > scheduleEnd THEN actual
         ELSE IF isBookedForDate(reservationsForBoat, toISODate(d)) THEN actual
         ELSE maxDurationLoop(reservationsForBoat, startDay, max,
                              scheduleStart, scheduleEnd, k + 1, actual + 1)

\* maxDurationFrom clamping desiredDays one day too high.
maxDurationFrom_ClampOneMore(reservationsForBoat, startDay, desiredDays, scheduleStart, scheduleEnd) ==
    LET max == Max(1, Min(desiredDays, MaxDurationDays + 1))
    IN  Max(1, maxDurationLoop(reservationsForBoat, startDay, max,
                               scheduleStart, scheduleEnd, 0, 0))

\* maxDurationFrom returning `actual` without the floor of 1.
maxDurationFrom_NoFloor(reservationsForBoat, startDay, desiredDays, scheduleStart, scheduleEnd) ==
    LET max == Max(1, Min(desiredDays, MaxDurationDays))
    IN  maxDurationLoop(reservationsForBoat, startDay, max,
                        scheduleStart, scheduleEnd, 0, 0)

\* maxDurationFrom without the upper clamp of desiredDays.
maxDurationFrom_NoUpperClamp(reservationsForBoat, startDay, desiredDays, scheduleStart, scheduleEnd) ==
    LET max == Max(1, desiredDays)
    IN  Max(1, maxDurationLoop(reservationsForBoat, startDay, max,
                               scheduleStart, scheduleEnd, 0, 0))

maxDurationFrom(reservationsForBoat, startDay, desiredDays, scheduleStart, scheduleEnd) ==
    LET max == Max(1, Min(desiredDays, MaxDurationDays))
    IN  Max(1, maxDurationLoop(reservationsForBoat, startDay, max,
                               scheduleStart, scheduleEnd, 0, 0))

\* The inner loop of hasAnyAvailableWindow letting a block run one day past
\* the window (offset + k > 14 instead of >= 14).
RECURSIVE anyWindowInner_OnePastWindow(_, _, _, _, _)
anyWindowInner_OnePastWindow(reservationsForBoat, scheduleStart, durationDays, offset, k) ==
    IF ~(k < durationDays) THEN TRUE
    ELSE IF offset + k > WindowDays THEN FALSE
    ELSE IF isBookedForDate(reservationsForBoat,
                            toISODate(addDays(scheduleStart, offset + k)))
         THEN FALSE
    ELSE anyWindowInner_OnePastWindow(reservationsForBoat, scheduleStart,
                                      durationDays, offset, k + 1)

\* The inner loop of hasAnyAvailableWindow: the value of `ok` after it.
RECURSIVE anyWindowInner(_, _, _, _, _)
anyWindowInner(reservationsForBoat, scheduleStart, durationDays, offset, k) ==
    IF ~(k < durationDays) THEN TRUE
    ELSE IF offset + k >= WindowDays THEN FALSE
    ELSE IF isBookedForDate(reservationsForBoat,
                            toISODate(addDays(scheduleStart, offset + k)))
         THEN FALSE
    ELSE anyWindowInner(reservationsForBoat, scheduleStart, durationDays,
                        offset, k + 1)

\* The outer loop of hasAnyAvailableWindow from `offset` on.
RECURSIVE anyWindowOuter(_, _, _, _)
anyWindowOuter(reservationsForBoat, scheduleStart, durationDays, offset) ==
    IF ~(offset < WindowDays) THEN FALSE
    ELSE IF anyWindowInner(reservationsForBoat, scheduleStart, durationDays,
                           offset, 0)
         THEN TRUE
    ELSE anyWindowOuter(reservationsForBoat, scheduleStart, durationDays,
                        offset + 1)

\* hasAnyAvailableWindow scanning from the second day of the window on.
hasAnyAvailableWindow_FromSecondDay(reservationsForBoat, scheduleStart, durationDays) ==
    IF durationDays <= 1 THEN TRUE
    ELSE anyWindowOuter(reservationsForBoat, scheduleStart, durationDays, 1)

\* hasAnyAvailableWindow scanning the window for one-day requests too.
hasAnyAvailableWindow_ScansOneDay(reservationsForBoat, scheduleStart, durationDays) ==
    IF durationDays < 1 THEN TRUE
    ELSE anyWindowOuter(reservationsForBoat, scheduleStart, durationDays, 0)

hasAnyAvailableWindow(reservationsForBoat, scheduleStart, durationDays) ==
    IF durationDays <= 1 THEN TRUE
    ELSE anyWindowOuter(reservationsForBoat, scheduleStart, durationDays, 0)

\* ------------------------------------------------------------------------
\* Booking utilities of the legacy demo scheduler (static BOOKINGS table)
\* ------------------------------------------------------------------------

\* BOOKINGS[boatId] || []
BookingsOf(bookings, boatId) ==
    IF boatId \in DOMAIN bookings THEN bookings[boatId] ELSE <<>>

\* isBooked taking a range without end for an open-ended one.
isBooked_MissingEndOpen(bookings, boatId, date) ==
    LET iso == toISODate(date)
        ranges == BookingsOf(bookings, boatId)
    IN  \E i \in 1..Len(ranges) :
            LET s == ranges[i].start
                e == ranges[i].end
            IN  IF e = <<>> THEN StrGeq(iso, s)
                ELSE StrGeq(iso, s) /\ StrLess(iso, e)

\* isBooked without the single-day case: a missing end never compares true.
isBooked_MissingEndIgnored(bookings, boatId, date) ==
    LET iso == toISODate(date)
        ranges == BookingsOf(bookings, boatId)
    IN  \E i \in 1..Len(ranges) :
            LET s == ranges[i].start
                e == ranges[i].end
            IN  StrGeq(iso, s) /\ StrLess(iso, e)

\* isBooked with an inclusive end (<= instead of <).
isBooked_EndInclusive(bookings, boatId, date) ==
    LET iso == toISODate(date)
        ranges == BookingsOf(bookings, boatId)
    IN  \E i \in 1..Len(ranges) :
            LET s == ranges[i].start
                e == ranges[i].end
            IN  IF e = <<>> THEN iso = s
                ELSE StrGeq(iso, s) /\ ~StrLess(e, iso)

\* isBooked taking a range with end <= start for a single-day range.
isBooked_DegenerateAsOneDay(bookings, boatId, date) ==
    LET iso == toISODate(date)
        ranges == BookingsOf(bookings, boatId)
    IN  \E i \in 1..Len(ranges) :
            LET s == ranges[i].start
                e == ranges[i].end
            IN  IF e = <<>> \/ ~StrLess(s, e) THEN iso = s
                ELSE StrGeq(iso, s) /\ StrLess(iso, e)

\* A missing `end` is modelled by the empty string; `!e` holds for both.
isBooked(bookings, boatId, date) ==
    LET iso == toISODate(date)
        ranges == BookingsOf(bookings, boatId)
    IN  \E i \in 1..Len(ranges) :
            LET s == ranges[i].start
                e == ranges[i].end
            IN  IF e = <<>> THEN iso = s
                ELSE StrGeq(iso, s) /\ StrLess(iso, e)

RECURSIVE availabilityInner(_, _, _, _, _, _)
availabilityInner(bookings, boatId, startDate, durationDays, offset, k) ==
    IF ~(k < durationDays) THEN TRUE
    ELSE IF offset + k >= WindowDays THEN FALSE
    ELSE IF isBooked(bookings, boatId, addDays(startDate, offset + k)) THEN FALSE
    ELSE availabilityInner(bookings, boatId, startDate, durationDays, offset, k + 1)

RECURSIVE availabilityOuter(_, _, _, _, _)
availabilityOuter(bookings, boatId, startDate, durationDays, offset) ==
    IF ~(offset < WindowDays) THEN FALSE
    ELSE IF availabilityInner(bookings, boatId, startDate, durationDays, offset, 0)
         THEN TRUE
    ELSE availabilityOuter(bookings, boatId, startDate, durationDays, offset + 1)

hasAvailabilityWindow(bookings, boatId, startDate, durationDays) ==
    IF durationDays <= 1 THEN TRUE
    ELSE availabilityOuter(bookings, boatId, startDate, durationDays, 0)

RECURSIVE computeWindowFitsLoop(_, _, _, _, _, _, _)
computeWindowFitsLoop(bookings, boatId, startDay, durationDays, scheduleStart, scheduleEnd, k) ==
    IF ~(k < durationDays) THEN TRUE
    ELSE LET dd == addDays(startDay, k) IN
         IF dd < scheduleStart \/ dd > scheduleEnd THEN FALSE
         ELSE IF isBooked(bookings, boatId, dd) THEN FALSE
         ELSE computeWindowFitsLoop(bookings, boatId, startDay, durationDays,
                                    scheduleStart, scheduleEnd, k + 1)

computeWindowFits(bookings, boatId, startDay, durationDays, scheduleStart, scheduleEnd) ==
    IF durationDays <= 1 THEN ~isBooked(bookings, boatId, startDay)
    ELSE computeWindowFitsLoop(bookings, boatId, startDay, durationDays,
                               scheduleStart, scheduleEnd, 0)

\* ------------------------------------------------------------------------
\* Effect of the calls on their Date arguments
\* ------------------------------------------------------------------------

\* addDays mutating its argument (x = d instead of x = new Date(d)).
addDaysArgAfter_InPlace(d, n) == d + n

\* The value of the Date d after addDays(d, n): setDate is applied to the
\* copy x, d itself is left alone.
addDaysArgAfter(d, n) == d

\* The value of startDay after the loop of windowFits from index k on.
RECURSIVE windowFitsLoopArgAfter(_, _, _, _, _, _)
windowFitsLoopArgAfter(reservationsForBoat, startDay, durationDays, scheduleStart, scheduleEnd, k) ==
    IF ~(k < durationDays) THEN startDay
    ELSE LET dd == addDays(startDay, k)
             after == addDaysArgAfter(startDay, k)
         IN  IF dd < scheduleStart \/ dd > scheduleEnd THEN after
             ELSE IF isBookedForDate(reservationsForBoat, toISODate(dd)) THEN after
             ELSE windowFitsLoopArgAfter(reservationsForBoat, after, durationDays,
                                         scheduleStart, scheduleEnd, k + 1)

\* The value of startDay after windowFits (toISODate only reads it).
windowFitsArgAfter(reservationsForBoat, startDay, durationDays, scheduleStart, scheduleEnd) ==
    IF durationDays <= 1 THEN startDay
    ELSE windowFitsLoopArgAfter(reservationsForBoat, startDay, durationDays,
                                scheduleStart, scheduleEnd, 0)

\* The value of startDay after the loop of maxDurationFrom from index k on.
RECURSIVE maxDurationLoopArgAfter(_, _, _, _, _, _)
maxDurationLoopArgAfter(reservationsForBoat, startDay, max, scheduleStart, scheduleEnd, k) ==
    IF ~(k < max) THEN startDay
    ELSE LET d == addDays(startDay, k)
             after == addDaysArgAfter(startDay, k)
         IN  IF d < scheduleStart \/ d > scheduleEnd THEN after
             ELSE IF isBookedForDate(reservationsForBoat, toISODate(d)) THEN after
             ELSE maxDurationLoopArgAfter(reservationsForBoat, after, max,
                                          scheduleStart, scheduleEnd, k + 1)

\* The value of startDay after maxDurationFrom.
maxDurationFromArgAfter(reservationsForBoat, startDay, desiredDays, scheduleStart, scheduleEnd) ==
    maxDurationLoopArgAfter(reservationsForBoat, startDay,
                            Max(1, Min(desiredDays, MaxDurationDays)),
                            scheduleStart, scheduleEnd, 0)

\* The value of scheduleStart after the inner loop of hasAnyAvailableWindow
\* from index k on, paired with the value of `ok`.
RECURSIVE anyWindowInnerArgAfter(_, _, _, _, _)
anyWindowInnerArgAfter(reservationsForBoat, scheduleStart, durationDays, offset, k) ==
    IF ~(k < durationDays) THEN <<scheduleStart, TRUE>>
    ELSE IF offset + k >= WindowDays THEN <<scheduleStart, FALSE>>
    ELSE LET d == addDays(scheduleStart, offset + k)
             after == addDaysArgAfter(scheduleStart, offset + k)
         IN  IF isBookedForDate(reservationsForBoat, toISODate(d))
             THEN <<after, FALSE>>
             ELSE anyWindowInnerArgAfter(reservationsForBoat, after,
                                         durationDays, offset, k + 1)

\* The value of scheduleStart after the outer loop from `offset` on.
RECURSIVE anyWindowOuterArgAfter(_, _, _, _)
anyWindowOuterArgAfter(reservationsForBoat, scheduleStart, durationDays, offset) ==
    IF ~(offset < WindowDays) THEN scheduleStart
    ELSE LET inner == anyWindowInnerArgAfter(reservationsForBoat, scheduleStart,
                                             durationDays, offset, 0)
         IN  IF inner[2] THEN inner[1]
             ELSE anyWindowOuterArgAfter(reservationsForBoat, inner[1],
                                         durationDays, offset + 1)

\* The value of scheduleStart after hasAnyAvailableWindow.
hasAnyAvailableWindowArgAfter(reservationsForBoat, scheduleStart, durationDays) ==
    IF durationDays <= 1 THEN scheduleStart
    ELSE anyWindowOuterArgAfter(reservationsForBoat, scheduleStart,
                                durationDays, 0)

\* ------------------------------------------------------------------------
\* State: the inputs of the calculator and the last call made on them
\* ------------------------------------------------------------------------

VARIABLES
    reservationsForBoat,  \* ApiReservation[] of one boat (startDate, endExclusive)
    BOOKINGS,             \* legacy table: boat id -> BookingRange[] (start, end?)
    scheduleStart,        \* first visible day
    scheduleEnd,          \* last visible day (inclusive)
    op,                   \* name of the function called, "none" before the call
    boatId,               \* boat id argument of the last legacy call
    startDay,             \* day argument of the last call
    durationDays,         \* duration argument of the last call
    result,               \* value returned by the last call
    dateAfter             \* value, after the call, of the Date argument the call
                          \* hands to addDays (followed for the server-backed calls)

\* Position inside a call that is followed loop iteration by loop iteration.
VARIABLES
    pc,                   \* "idle" before the call, "loop" inside it, "done" after it
    k,                    \* loop index k
    offset,               \* loop index offset of hasAnyAvailableWindow
    actual                \* counter `actual` of maxDurationFrom

run == <<pc, k, offset, actual>>

\* No call is being followed.
RunIdle == pc = "idle" /\ k = 0 /\ offset = 0 /\ actual = 0

\* State of the SchedulerApp component (useState), and the clock.
VARIABLES
    startDateStr,         \* value of the start date input ("" when empty)
    durationStr,          \* value of the duration input
    cursorDate,           \* Date the visible window is derived from
    modalBoatId,          \* boat of the open request dialog, or null
    boats,                \* boats loaded from /api/boats
    reservations,         \* reservations loaded from /api/schedule
    loading,              \* a schedule request is in flight
    now                   \* new Date(): <<day, time of day>>

ui == <<startDateStr, durationStr, cursorDate, modalBoatId, boats,
        reservations, loading, now>>

\* null of modalBoatId.
NoBoat == "null"

\* The component is not mounted.
UIIdle ==
    /\ startDateStr = <<>>
    /\ durationStr = <<>>
    /\ cursorDate = 0
    /\ modalBoatId = NoBoat
    /\ boats = <<>>
    /\ reservations = <<>>
    /\ loading = FALSE
    /\ now = <<0, 0>>

\* Value returned by the admin's prompt "How many days to block?".
VARIABLES daysAnswer

\* The schedule requests of the SchedulerApp component.
VARIABLES
    inflight,             \* requests not answered yet: [start, alive], oldest first
    errorMsg              \* state errorMsg

fetch == <<inflight, errorMsg>>

\* No schedule request has been sent.
FetchIdle == inflight = <<>> /\ errorMsg = ""

\* State of the request dialog (Modal), the calls of submitRequest that have
\* not finished, the requests and answers seen on the network, and the page
\* the browser shows.
VARIABLES
    submitting,           \* state submitting
    submitMsg,            \* state submitMsg
    calls,                \* unfinished calls: [id, stage], stage "me" or "post"
    netlog,               \* [call, what, answer] in order of occurrence
    location              \* window.location.href

modal == <<submitting, submitMsg, calls, netlog, location>>

\* The dialog has not been used.
ModalIdle ==
    /\ submitting = FALSE
    /\ submitMsg = ""
    /\ calls = <<>>
    /\ netlog = <<>>
    /\ location = "/"

\* State of the admin pages: the reservations loaded by AdminCalendarView,
\* and the list, token and flags of Admin with its calls of act that have not
\* finished.
VARIABLES
    calReservations,      \* state reservations of AdminCalendarView
    items,                \* state items of Admin
    busyId,               \* state busyId
    error,                \* state error
    token,                \* state token
    acting                \* unfinished calls of act: [id, action]

admin == <<calReservations, items, busyId, error, token, acting>>

\* The admin pages have not been used.
AdminIdle ==
    /\ calReservations = <<>>
    /\ items = <<>>
    /\ busyId = ""
    /\ error = ""
    /\ token = ""
    /\ acting = <<>>

\* The variables of the dialogs and of the admin pages.
extra == <<fetch, modal, admin>>

ExtraIdle == FetchIdle /\ ModalIdle /\ AdminIdle

\* The variables the booking utilities leave alone.
rest == <<ui, daysAnswer, extra>>

\* The variables the calls taken as a whole leave alone.
others == <<run, rest>>

vars == <<reservationsForBoat, BOOKINGS, scheduleStart, scheduleEnd,
          op, boatId, startDay, durationDays, result, dateAfter, others>>

inputs == <<reservationsForBoat, BOOKINGS, scheduleStart, scheduleEnd>>

\* Day numbers of some dates: 2025-12-28 and 2026-01-10.
Dec28 == NewDate(2025, 11, 28)
Jan10 == NewDate(2026, 0, 10)

\* The ranges the range lists are drawn from, as <<start, end>> day numbers
\* (end 0 - 1: no end, the legacy single-day form).
NoEnd == 0 - 1
RangePool ==
    << <<Jan10 + 1, Jan10 + 3>>,            \* [01-11, 01-13)
       <<Jan10, Jan10 + WindowDays>>,       \* the whole window from 01-10
       <<Jan10 + 2, Jan10 + 2>>,            \* end = start
       <<Jan10 + 5, Jan10 + 1>>,            \* end < start
       <<Jan10 + 4, NoEnd>>,                \* {start: 01-14}
       <<Dec28 + 2, Dec28 + 5>> >>          \* [2025-12-30, 2026-01-02)

\* The pool entry as the schedule endpoint returns it (both bounds).
ApiRange(p) ==
    [startDate |-> toISODate(p[1]),
     endExclusive |-> toISODate(IF p[2] = NoEnd THEN p[1] + 1 ELSE p[2])]

\* The pool entry as the legacy fixture writes it (end may be missing).
BookingRange(p) ==
    [start |-> toISODate(p[1]),
     end |-> IF p[2] = NoEnd THEN <<>> ELSE toISODate(p[2])]

\* Strictly increasing index lists of at most MaxRanges pool entries.
IndexLists ==
    UNION { { s \in [1..n -> 1..Len(RangePool)] :
                \A i \in 1..(n - 1) : s[i] < s[i + 1] } : n \in 0..MaxRanges }

KnownBoat == "excess11"
BoatIds == {KnownBoat, "unknown"}

ScheduleStarts == {Dec28, Jan10}
WindowLengths == {WindowDays, LongWindowDays}
StartOffsets == (0 - 1)..WindowDays
DurationChoices == {0 - 1, 0, 1, 2, 3, 5, 14, 15, 30, 31}

Init ==
    /\ \E s \in IndexLists :
        /\ reservationsForBoat = [i \in 1..Len(s) |-> ApiRange(RangePool[s[i]])]
        /\ BOOKINGS = [b \in {KnownBoat} |->
                         [i \in 1..Len(s) |-> BookingRange(RangePool[s[i]])]]
    /\ scheduleStart \in ScheduleStarts
    /\ \E n \in WindowLengths : scheduleEnd = addDays(scheduleStart, n - 1)
    /\ op = "none"
    /\ boatId = KnownBoat
    /\ startDay = scheduleStart
    /\ durationDays = 1
    /\ result = FALSE
    /\ dateAfter = startDay
    /\ RunIdle
    /\ UIIdle
    /\ ExtraIdle
    /\ daysAnswer = <<>>

IsBookedForDateCall ==
    \E o \in StartOffsets :
        /\ op = "none"
        /\ op' = "isBookedForDate"
        /\ startDay' = addDays(scheduleStart, o)
        /\ result' = isBookedForDate(reservationsForBoat, toISODate(startDay'))
        /\ dateAfter' = startDay'
        /\ UNCHANGED <<inputs, boatId, durationDays, others>>

WindowFitsCall ==
    \E o \in StartOffsets, n \in DurationChoices :
        /\ op = "none"
        /\ op' = "windowFits"
        /\ startDay' = addDays(scheduleStart, o)
        /\ durationDays' = n
        /\ result' = windowFits(reservationsForBoat, startDay', n,
                                scheduleStart, scheduleEnd)
        /\ dateAfter' = windowFitsArgAfter(reservationsForBoat, startDay', n,
                                           scheduleStart, scheduleEnd)
        /\ UNCHANGED <<inputs, boatId, others>>

MaxDurationFromCall ==
    \E o \in StartOffsets, n \in DurationChoices :
        /\ op = "none"
        /\ op' = "maxDurationFrom"
        /\ startDay' = addDays(scheduleStart, o)
        /\ durationDays' = n
        /\ result' = maxDurationFrom(reservationsForBoat, startDay', n,
                                     scheduleStart, scheduleEnd)
        /\ dateAfter' = maxDurationFromArgAfter(reservationsForBoat, startDay',
                              n, scheduleStart, scheduleEnd)
        /\ UNCHANGED <<inputs, boatId, others>>

HasAnyAvailableWindowCall ==
    \E n \in DurationChoices :
        /\ op = "none"
        /\ op' = "hasAnyAvailableWindow"
        /\ durationDays' = n
        /\ result' = hasAnyAvailableWindow(reservationsForBoat, scheduleStart, n)
        /\ dateAfter' = hasAnyAvailableWindowArgAfter(reservationsForBoat,
                              scheduleStart, n)
        /\ UNCHANGED <<inputs, boatId, startDay, others>>

IsBookedCall ==
    \E b \in BoatIds, o \in StartOffsets :
        /\ op = "none"
        /\ op' = "isBooked"
        /\ boatId' = b
        /\ startDay' = addDays(scheduleStart, o)
        /\ result' = isBooked(BOOKINGS, b, startDay')
        /\ dateAfter' = startDay'
        /\ UNCHANGED <<inputs, durationDays, others>>

HasAvailabilityWindowCall ==
    \E b \in BoatIds, n \in DurationChoices :
        /\ op = "none"
        /\ op' = "hasAvailabilityWindow"
        /\ boatId' = b
        /\ durationDays' = n
        /\ result' = hasAvailabilityWindow(BOOKINGS, b, scheduleStart, n)
        /\ dateAfter' = scheduleStart
        /\ UNCHANGED <<inputs, startDay, others>>

ComputeWindowFitsCall ==
    \E b \in BoatIds, o \in StartOffsets, n \in DurationChoices :
        /\ op = "none"
        /\ op' = "computeWindowFits"
        /\ boatId' = b
        /\ startDay' = addDays(scheduleStart, o)
        /\ durationDays' = n
        /\ result' = computeWindowFits(BOOKINGS, b, startDay', n,
                                       scheduleStart, scheduleEnd)
        /\ dateAfter' = startDay'
        /\ UNCHANGED <<inputs, others>>

Next ==
    \/ IsBookedForDateCall
    \/ WindowFitsCall
    \/ MaxDurationFromCall
    \/ HasAnyAvailableWindowCall
    \/ IsBookedCall
    \/ HasAvailabilityWindowCall
    \/ ComputeWindowFitsCall

Spec == Init /\ [][Next]_vars

\* The server-backed utilities alone.
ServerNext ==
    \/ IsBookedForDateCall
    \/ WindowFitsCall
    \/ MaxDurationFromCall
    \/ HasAnyAvailableWindowCall

ServerSpec == Init /\ [][ServerNext]_vars

\* ------------------------------------------------------------------------
\* The four server-backed operations followed one loop iteration at a time
\* ------------------------------------------------------------------------

\* Arguments of the followed calls: start-day offsets from scheduleStart and
\* durations (negative, zero, one, small, very large).
RunOffsets == {0 - 1, 0, 12}
RunDurations == {0 - 1, 0, 1, 2, 1000}

\* for (...; ...; k++) without the increment.
NextK_Stuck(i) == i

\* k++ (and offset++) of the for loops.
NextK(i) == i + 1

\* isBookedForDate has no loop of its own: Array.some returns.
BeginIsBookedForDate ==
    \E o \in RunOffsets :
        /\ pc = "idle"
        /\ op' = "isBookedForDate"
        /\ startDay' = addDays(scheduleStart, o)
        /\ dateAfter' = startDay'
        /\ result' = isBookedForDate(reservationsForBoat, toISODate(startDay'))
        /\ pc' = "done"
        /\ UNCHANGED <<inputs, rest, boatId, durationDays, k, offset, actual>>

\* windowFits up to its loop: the one-day case returns at once.
BeginWindowFits ==
    \E o \in RunOffsets, n \in RunDurations :
        /\ pc = "idle"
        /\ op' = "windowFits"
        /\ startDay' = addDays(scheduleStart, o)
        /\ dateAfter' = startDay'
        /\ durationDays' = n
        /\ IF n <= 1
           THEN /\ result' = ~isBookedForDate(reservationsForBoat,
                                              toISODate(startDay'))
                /\ pc' = "done"
           ELSE /\ result' = result
                /\ pc' = "loop"
        /\ k' = 0
        /\ UNCHANGED <<inputs, rest, boatId, offset, actual>>

\* The loop test and one iteration of the loop of windowFits.
StepWindowFits ==
    /\ pc = "loop"
    /\ op = "windowFits"
    /\ IF ~(k < durationDays)
       THEN /\ result' = TRUE
            /\ pc' = "done"
            /\ k' = k
       ELSE LET dd == addDays(startDay, k) IN
            IF dd < scheduleStart \/ dd > scheduleEnd
                 \/ isBookedForDate(reservationsForBoat, toISODate(dd))
            THEN /\ result' = FALSE
                 /\ pc' = "done"
                 /\ k' = k
            ELSE /\ k' = NextK(k)
                 /\ UNCHANGED <<result, pc>>
    /\ UNCHANGED <<inputs, rest, op, boatId, startDay, durationDays, dateAfter,
                   offset, actual>>

\* maxDurationFrom up to its loop.
BeginMaxDurationFrom ==
    \E o \in RunOffsets, n \in RunDurations :
        /\ pc = "idle"
        /\ op' = "maxDurationFrom"
        /\ startDay' = addDays(scheduleStart, o)
        /\ dateAfter' = startDay'
        /\ durationDays' = n
        /\ actual' = 0
        /\ k' = 0
        /\ pc' = "loop"
        /\ UNCHANGED <<inputs, rest, boatId, result, offset>>

\* The loop test and one iteration of the loop of maxDurationFrom; after the
\* loop, the return of Math.max(1, actual).
StepMaxDurationFrom ==
    /\ pc = "loop"
    /\ op = "maxDurationFrom"
    /\ LET max == Max(1, Min(durationDays, MaxDurationDays))
           d == addDays(startDay, k)
       IN  IF \/ ~(k < max)
              \/ d < scheduleStart \/ d > scheduleEnd
              \/ isBookedForDate(reservationsForBoat, toISODate(d))
           THEN /\ result' = Max(1, actual)
                /\ pc' = "done"
                /\ UNCHANGED <<k, actual>>
           ELSE /\ actual' = actual + 1
                /\ k' = NextK(k)
                /\ UNCHANGED <<result, pc>>
    /\ UNCHANGED <<inputs, rest, op, boatId, startDay, durationDays, dateAfter, offset>>

\* hasAnyAvailableWindow up to its loops: the one-day case returns at once.
\* The function takes no scheduleEnd, so it is followed under one of them.
BeginHasAnyAvailableWindow ==
    \E n \in RunDurations :
        /\ pc = "idle"
        /\ scheduleEnd = addDays(scheduleStart, WindowDays - 1)
        /\ op' = "hasAnyAvailableWindow"
        /\ durationDays' = n
        /\ IF n <= 1
           THEN result' = TRUE /\ pc' = "done"
           ELSE result' = result /\ pc' = "loop"
        /\ offset' = 0
        /\ k' = 0
        /\ dateAfter' = scheduleStart
        /\ UNCHANGED <<inputs, rest, boatId, startDay, actual>>

\* One test of the loops of hasAnyAvailableWindow: the end of the outer loop
\* (return false), the end of the inner loop with ok (return true), a break
\* of the inner loop (next offset), or one more day of the block.
StepHasAnyAvailableWindow ==
    /\ pc = "loop"
    /\ op = "hasAnyAvailableWindow"
    /\ IF ~(offset < WindowDays)
       THEN /\ result' = FALSE
            /\ pc' = "done"
            /\ UNCHANGED <<k, offset>>
       ELSE IF ~(k < durationDays)
       THEN /\ result' = TRUE
            /\ pc' = "done"
            /\ UNCHANGED <<k, offset>>
       ELSE IF \/ offset + k >= WindowDays
               \/ isBookedForDate(reservationsForBoat,
                      toISODate(addDays(scheduleStart, offset + k)))
       THEN /\ offset' = NextK(offset)
            /\ k' = 0
            /\ UNCHANGED <<result, pc>>
       ELSE /\ k' = NextK(k)
            /\ UNCHANGED <<result, pc, offset>>
    /\ UNCHANGED <<inputs, rest, op, boatId, startDay, durationDays, dateAfter, actual>>

RunNext ==
    \/ BeginIsBookedForDate
    \/ BeginWindowFits
    \/ StepWindowFits
    \/ BeginMaxDurationFrom
    \/ StepMaxDurationFrom
    \/ BeginHasAnyAvailableWindow
    \/ StepHasAnyAvailableWindow

\* The calls are synchronous code: a call that has begun keeps running.
\* Every step of a call changes its position, hence the subscript.
RunSpec == Init /\ [][RunNext]_vars /\ WF_run(RunNext)

\* ------------------------------------------------------------------------
\* The SchedulerApp component
\* ------------------------------------------------------------------------

\* The model follows the window no further than MaxShift presses of
\* Past / Future away from the first window of the session.
MaxShift == 1

\* A Date at local midnight, as a Date with a time of day.
AtMidnight(d) == <<d, 0>>

\* new Date(d.getFullYear(), d.getMonth(), d.getDate()) of a Date with a
\* time of day: the day at local midnight.
startOfDay(t) == NewDate(getFullYear(t[1]), getMonth(t[1]), getDate(t[1]))

\* Date.getDay (0 = Sunday); 2025-12-01 is a Monday.
getDay(d) == (d + 1) % 7

\* nextSunday without the week added on a Sunday.
nextSunday_SameDayOnSunday(ref) ==
    LET d == startOfDay(ref)
        day == getDay(d)
        delta == (7 - day) % 7
    IN  addDays(d, delta)

nextSunday(ref) ==
    LET d == startOfDay(ref)
        day == getDay(d)
        delta == (7 - day) % 7
    IN  addDays(d, IF delta = 0 THEN 7 ELSE delta)

\* null of fromISODate.
NullDate == 0 - 1000

\* fromISODate of the value of the date input: the empty string splits into
\* [""], y is NaN and the result is null.
fromISODateOrNull(s) == IF s = <<>> THEN NullDate ELSE fromISODate(s)

\* parseInt(s, 10): leading blanks, an optional sign and the longest prefix of
\* decimal digits; <<n>> for the number n and <<>> for NaN.
RECURSIVE SkipBlanks(_)
SkipBlanks(s) == IF s # <<>> /\ Head(s) = 32 THEN SkipBlanks(Tail(s)) ELSE s

RECURSIVE DigitPrefix(_)
DigitPrefix(s) ==
    IF s # <<>> /\ Head(s) \in 48..57 THEN <<Head(s)>> \o DigitPrefix(Tail(s))
    ELSE <<>>

parseInt(s) ==
    LET t == SkipBlanks(s)
        signed == t # <<>> /\ Head(t) \in {43, 45}
        ds == DigitPrefix(IF signed THEN Tail(t) ELSE t)
    IN  IF ds = <<>> THEN <<>>
        ELSE IF signed /\ Head(t) = 45 THEN <<0 - ParseInt(ds)>>
        ELSE <<ParseInt(ds)>>

\* value.replace(/[^0-9]/g, "") of the duration input.
RECURSIVE StripNonDigits(_)
StripNonDigits(s) ==
    IF s = <<>> THEN <<>>
    ELSE (IF Head(s) \in 48..57 THEN <<Head(s)>> ELSE <<>>)
         \o StripNonDigits(Tail(s))

\* The durationDays memo without the upper clamp.
durationDaysMemo_NoClamp(str) ==
    LET n == parseInt(str)
    IN  IF n # <<>> /\ n[1] > 0 THEN n[1] ELSE 1

\* const durationDays = useMemo(...)
durationDaysMemo(str) ==
    LET n == parseInt(str)
    IN  IF n # <<>> /\ n[1] > 0 THEN Min(n[1], MaxDurationDays) ELSE 1

\* const days = Array.from({ length: 14 }, (_, i) => addDays(scheduleStart, i))
days(start) == [i \in 1..WindowDays |-> addDays(start, i - 1)]

\* days[days.length - 1] ?? scheduleStart
scheduleEndMemo(start) ==
    LET ds == days(start) IN IF Len(ds) = 0 THEN start ELSE ds[Len(ds)]

\* reservationsByBoat[boatId] || []
RECURSIVE reservationsByBoat(_, _)
reservationsByBoat(rs, b) ==
    IF rs = <<>> THEN <<>>
    ELSE (IF Head(rs).boatId = b THEN <<Head(rs)>> ELSE <<>>)
         \o reservationsByBoat(Tail(rs), b)

\* The filter of boatsFiltered without the start-date branch.
BoatPassesFilter_IgnoresStartDate(b, rs, startStr, n, start, end) ==
    hasAnyAvailableWindow(reservationsByBoat(rs, b), start, n)

\* The filter of boatsFiltered on one boat (no boat picked in "My boats").
BoatPassesFilter(b, rs, startStr, n, start, end) ==
    LET r == reservationsByBoat(rs, b)
        parsed == fromISODateOrNull(startStr)
    IN  IF parsed # NullDate
        THEN LET startToCheck == startOfDay(AtMidnight(parsed)) IN
             IF isBookedForDate(r, toISODate(startToCheck)) THEN FALSE
             ELSE windowFits(r, startToCheck, n, start, end)
        ELSE hasAnyAvailableWindow(r, start, n)

\* The ids of boatsFiltered.
boatsFiltered(bs, rs, startStr, n, start, end) ==
    { bs[i] : i \in { j \in 1..Len(bs) :
                        BoatPassesFilter(bs[j], rs, startStr, n, start, end) } }

\* The boats shown in the grid in the current state.
BoatsShown ==
    boatsFiltered(boats, reservations, startDateStr, durationDays,
                  scheduleStart, scheduleEnd)

\* The cursor set by the start-date effect for a start date string that has
\* changed.
StartDateEffect(str) ==
    IF str = <<>> THEN nextSunday(now)
    ELSE startOfDay(AtMidnight(fromISODateOrNull(str)))

\* shift with a step of one week.
shiftCursor_ByWeek(d, dir) == addDays(d, dir * 7)

\* setCursorDate((d) => addDays(d, dir * 14))
shiftCursor(d, dir) == addDays(d, dir * 14)

\* onClickOpenCell keeping the typed duration.
adjustedDuration_KeepsDesired(r, day, desired, start, end) == desired

\* const adjusted = maxDurationFrom(r, day, desired, scheduleStart, scheduleEnd)
adjustedDuration(r, day, desired, start, end) ==
    maxDurationFrom(r, day, desired, start, end)

\* First and last cursor day followed.
FirstCursor == Jan10 + 1 - 14 * MaxShift
LastCursor == Jan10 + 8 + 14 * MaxShift

\* The clock of the session: a Saturday and a Sunday, after midnight.
Nows == { <<Jan10, 1>>, <<Jan10 + 1, 1>> }

\* Values picked in the date input.
StartDateInputs == { toISODate(Jan10 + 4), toISODate(Jan10 + 20) }

\* Texts typed in the duration input: "", "0", "-3", "31", "ab".
TypedDurations == { <<>>, <<48>>, <<45, 51>>, <<51, 49>>, <<97, 98>> }

\* Columns of the grid whose cells are clicked.
ClickColumns == {1, 2, 3, WindowDays}

\* The boats of /api/boats.
Fleet == << "excess11", "lagoon46" >>

ApiReservation(b, from, to) ==
    [boatId |-> b, startDate |-> toISODate(from), endExclusive |-> toISODate(to)]

\* Answers of /api/schedule: no reservation; the first boat booked for the
\* fourteen days from 01-11; a few shorter reservations of both boats.
ScheduleAnswers ==
    { <<>>,
      << ApiReservation(Fleet[1], Jan10 + 1, Jan10 + 15) >>,
      << ApiReservation(Fleet[1], Jan10 + 3, Jan10 + 5),
         ApiReservation(Fleet[2], Jan10 + 1, Jan10 + 2),
         ApiReservation(Fleet[2], Jan10 + 10, Jan10 + 26) >> }

\* The values of the render that follows a state change.
Rendered ==
    /\ scheduleStart' = startOfDay(AtMidnight(cursorDate'))
    /\ scheduleEnd' = scheduleEndMemo(scheduleStart')
    /\ durationDays' = durationDaysMemo(durationStr')

\* What the component does not hold.
notUI == <<reservationsForBoat, BOOKINGS, boatId, startDay, result, dateAfter,
           run, daysAnswer, extra>>

\* The state after the first render and its effects: the start-date effect
\* has set the cursor again, both requests are in flight.
UIInit ==
    /\ reservationsForBoat = <<>>
    /\ BOOKINGS = <<>>
    /\ boatId = KnownBoat
    /\ startDay = 0
    /\ result = FALSE
    /\ dateAfter = 0
    /\ RunIdle
    /\ ExtraIdle
    /\ daysAnswer = <<>>
    /\ op = "none"
    /\ now \in Nows
    /\ startDateStr = <<>>
    /\ durationStr = <<>>
    /\ cursorDate = nextSunday(now)
    /\ modalBoatId = NoBoat
    /\ boats = <<>>
    /\ reservations = <<>>
    /\ loading = TRUE
    /\ scheduleStart = startOfDay(AtMidnight(cursorDate))
    /\ scheduleEnd = scheduleEndMemo(scheduleStart)
    /\ durationDays = durationDaysMemo(durationStr)

\* onChange of the start date input, and the start-date effect.  The request
\* dialog covers the page while it is open.
SetStartDate(str) ==
    /\ modalBoatId = NoBoat
    /\ str # startDateStr
    /\ startDateStr' = str
    /\ cursorDate' = StartDateEffect(str)
    /\ cursorDate' \in FirstCursor..LastCursor
    /\ loading' = TRUE
    /\ UNCHANGED <<durationStr, modalBoatId, boats, reservations, now, op, notUI>>
    /\ Rendered

\* onChange of the duration input.
SetDuration(typed) ==
    /\ modalBoatId = NoBoat
    /\ durationStr' = StripNonDigits(typed)
    /\ UNCHANGED <<startDateStr, cursorDate, modalBoatId, boats, reservations,
                   loading, now, op, notUI>>
    /\ Rendered

\* Past (dir = -1) and Future (dir = 1).
Shift(dir) ==
    /\ modalBoatId = NoBoat
    /\ cursorDate' = shiftCursor(cursorDate, dir)
    /\ cursorDate' \in FirstCursor..LastCursor
    /\ loading' = TRUE
    /\ UNCHANGED <<startDateStr, durationStr, modalBoatId, boats, reservations,
                   now, op, notUI>>
    /\ Rendered

\* Click on the cell of boat b and day days[i]: onClickOpenCell, then the
\* start-date effect if the start date string has changed.
ClickOpenCell(b, i) ==
    LET day == days(scheduleStart)[i]
        iso == toISODate(day)
        r == reservationsByBoat(reservations, b)
    IN  /\ modalBoatId = NoBoat
        /\ startDateStr' = iso
        /\ modalBoatId' = b
        /\ op' = "onClickOpenCell"
        /\ b \in BoatsShown
        /\ ~isBookedForDate(r, iso)
        /\ durationStr' = DecStr(adjustedDuration(r, day, durationDays,
                                                  scheduleStart, scheduleEnd))
        /\ IF iso # startDateStr
           THEN /\ cursorDate' = StartDateEffect(iso)
                /\ loading' = TRUE
           ELSE UNCHANGED <<cursorDate, loading>>
        /\ cursorDate' \in FirstCursor..LastCursor
        /\ UNCHANGED <<boats, reservations, now, notUI>>
        /\ Rendered

\* Click on the name of a boat of the grid.
OpenBoat(b) ==
    /\ modalBoatId = NoBoat
    /\ b \in BoatsShown
    /\ modalBoatId' = b
    /\ op' = "openBoat"
    /\ UNCHANGED <<startDateStr, durationStr, cursorDate, boats, reservations,
                   loading, now, notUI>>
    /\ Rendered

\* onClose of the request dialog.
CloseModal ==
    /\ modalBoatId # NoBoat
    /\ modalBoatId' = NoBoat
    /\ op' = "none"
    /\ UNCHANGED <<startDateStr, durationStr, cursorDate, boats, reservations,
                   loading, now, notUI>>
    /\ Rendered

\* The answer of /api/boats arrives.
BoatsLoaded ==
    /\ boats = <<>>
    /\ boats' = Fleet
    /\ UNCHANGED <<startDateStr, durationStr, cursorDate, modalBoatId,
                   reservations, loading, now, op, notUI>>
    /\ Rendered

\* The answer of the latest /api/schedule request arrives.
ScheduleLoaded(answer) ==
    /\ loading
    /\ reservations' = answer
    /\ loading' = FALSE
    /\ UNCHANGED <<startDateStr, durationStr, cursorDate, modalBoatId, boats,
                   now, op, notUI>>
    /\ Rendered

\* The latest /api/schedule request fails.
ScheduleFailed ==
    /\ loading
    /\ loading' = FALSE
    /\ UNCHANGED <<startDateStr, durationStr, cursorDate, modalBoatId, boats,
                   reservations, now, op, notUI>>
    /\ Rendered

UINext ==
    \/ \E str \in StartDateInputs \cup {<<>>} : SetStartDate(str)
    \/ \E typed \in TypedDurations : SetDuration(typed)
    \/ \E dir \in {0 - 1, 1} : Shift(dir)
    \/ \E b \in BoatsShown, i \in ClickColumns : ClickOpenCell(b, i)
    \/ \E b \in BoatsShown : OpenBoat(b)
    \/ CloseModal
    \/ BoatsLoaded
    \/ \E answer \in ScheduleAnswers : ScheduleLoaded(answer)
    \/ ScheduleFailed

UISpec == UIInit /\ [][UINext]_vars

\* ------------------------------------------------------------------------
\* The SchedulerApp component: the schedule requests one by one
\* ------------------------------------------------------------------------

\* Requests that may be unanswered at a time.
MaxInFlight == 2

\* The cursor dates the requests are followed for: one press of Past or
\* Future around the first window, and the start dates typed.
FetchCursors == (Jan10 + 1 - 14)..(Jan10 + 8 + 14)

\* What /api/schedule may answer to ?start=iso: nothing, or one reservation
\* that begins on the day asked for.
AnswersFor(iso) ==
    { <<>>, << ApiReservation(Fleet[1], fromISODate(iso), fromISODate(iso) + 2) >> }

\* The flag `alive` is ignored.
ResponseApplies_Always(f) == TRUE

\* The flag `alive` of the effect run that sent request f.
ResponseApplies(f) == f.alive

\* The cleanup of the previous run of the effect.
Cleanup(fs) == [i \in 1..Len(fs) |-> [fs[i] EXCEPT !.alive = FALSE]]

\* The list without its i-th request.
Answered(fs, i) == SubSeq(fs, 1, i - 1) \o SubSeq(fs, i + 1, Len(fs))

\* The effect that follows a change of scheduleStart: cleanup of the run
\* before, then setLoading(true), setErrorMsg("") and the request.
ScheduleEffect ==
    /\ Len(inflight) < MaxInFlight
    /\ inflight' = Append(Cleanup(inflight),
                          [start |-> toISODate(scheduleStart'), alive |-> TRUE])
    /\ loading' = TRUE
    /\ errorMsg' = ""

\* The state after the mount: the request of the first render has been cleaned
\* up by the render that follows the start-date effect, which sent its own.
FetchInit ==
    /\ reservationsForBoat = <<>>
    /\ BOOKINGS = <<>>
    /\ boatId = KnownBoat
    /\ startDay = 0
    /\ result = FALSE
    /\ dateAfter = 0
    /\ RunIdle
    /\ daysAnswer = <<>>
    /\ op = "none"
    /\ now \in Nows
    /\ startDateStr = <<>>
    /\ durationStr = <<>>
    /\ cursorDate = nextSunday(now)
    /\ modalBoatId = NoBoat
    /\ boats = <<>>
    /\ reservations = <<>>
    /\ loading = TRUE
    /\ scheduleStart = startOfDay(AtMidnight(cursorDate))
    /\ scheduleEnd = scheduleEndMemo(scheduleStart)
    /\ durationDays = durationDaysMemo(durationStr)
    /\ inflight = << [start |-> toISODate(scheduleStart), alive |-> FALSE],
                     [start |-> toISODate(scheduleStart), alive |-> TRUE] >>
    /\ errorMsg = ""
    /\ ModalIdle
    /\ AdminIdle

\* What the request actions leave alone.
notFetch == <<reservationsForBoat, BOOKINGS, boatId, startDay, result, dateAfter,
             run, daysAnswer, durationStr, modalBoatId, boats, now, modal,
             admin>>

\* onChange of the start date input, the start-date effect and the schedule
\* effect.
WindowStartDate(str) ==
    /\ str # startDateStr
    /\ startDateStr' = str
    /\ cursorDate' = StartDateEffect(str)
    /\ cursorDate' \in FetchCursors
    /\ op' = "setStartDate"
    /\ UNCHANGED <<reservations, notFetch>>
    /\ Rendered
    /\ ScheduleEffect

\* Past (dir = -1) and Future (dir = 1), and the schedule effect.
WindowShift(dir) ==
    /\ cursorDate' = shiftCursor(cursorDate, dir)
    /\ cursorDate' \in FetchCursors
    /\ op' = "shift"
    /\ UNCHANGED <<startDateStr, reservations, notFetch>>
    /\ Rendered
    /\ ScheduleEffect

\* Request i is answered with a list of reservations.
ScheduleResponse(i, answer) ==
    /\ inflight' = Answered(inflight, i)
    /\ op' = "scheduleResponse"
    /\ IF ResponseApplies(inflight[i])
       THEN /\ reservations' = answer
            /\ loading' = FALSE
       ELSE UNCHANGED <<reservations, loading>>
    /\ UNCHANGED <<startDateStr, cursorDate, errorMsg, notFetch>>
    /\ Rendered

\* Request i fails: no answer, an answer that is not JSON, or a status that
\* is not ok.
ScheduleError(i) ==
    /\ inflight' = Answered(inflight, i)
    /\ op' = "scheduleError"
    /\ IF ResponseApplies(inflight[i])
       THEN /\ errorMsg' = "Failed to load schedule"
            /\ loading' = FALSE
       ELSE UNCHANGED <<errorMsg, loading>>
    /\ UNCHANGED <<startDateStr, cursorDate, reservations, notFetch>>
    /\ Rendered

FetchNext ==
    \/ \E str \in StartDateInputs \cup {<<>>} : WindowStartDate(str)
    \/ \E dir \in {0 - 1, 1} : WindowShift(dir)
    \/ \E i \in 1..Len(inflight) :
          \E answer \in AnswersFor(inflight[i].start) : ScheduleResponse(i, answer)
    \/ \E i \in 1..Len(inflight) : ScheduleError(i)

FetchSpec == FetchInit /\ [][FetchNext]_vars

\* ------------------------------------------------------------------------
\* The request dialog: submitRequest
\* ------------------------------------------------------------------------

\* Clicks on "Request reservation" that are followed.
MaxSubmits == 2

\* The messages of the dialog; the text of a failure is left out.
LoginMsg == "Please login to request a reservation."
SubmittedMsg == "Request submitted! Status: PENDING"
FailedMsg == "Request failed"

\* What GET /api/me may answer: res.ok, data.ok and data.user.id (a body
\* that is not JSON reads as {}).
MeAnswers == [got : {"me"}, resOk : BOOLEAN, dataOk : BOOLEAN, userId : BOOLEAN]

\* What POST /api/reservations/request may answer.
PostAnswers == [got : {"post"}, status : {200, 401, 409}, dataOk : BOOLEAN]

\* A request that got no answer (fetch rejects), one that waits for its
\* answer, and no request at all.
Rejected == [got |-> "rejected"]
Sent == [got |-> "sent"]
NoAnswer == [got |-> "none"]

\* The login check without the user id.
LoginMissing_IgnoresUserId(me) == ~me.resOk \/ ~me.dataOk

\* !meRes.ok || !meData?.ok || !meData?.user?.id
LoginMissing(me) == ~me.resOk \/ ~me.dataOk \/ ~me.userId

\* The calls without the i-th.
Finished(cs, i) == SubSeq(cs, 1, i - 1) \o SubSeq(cs, i + 1, Len(cs))

\* Clicks so far: the login checks sent.
Submits == Cardinality({ j \in 1..Len(netlog) : netlog[j].what = "GET /api/me" })

\* The dialog is open on a boat of the grid; the effect on `open` has run.
ModalInit ==
    /\ reservationsForBoat = <<>>
    /\ BOOKINGS = <<>>
    /\ boatId = KnownBoat
    /\ startDay = 0
    /\ result = NoAnswer
    /\ dateAfter = 0
    /\ RunIdle
    /\ daysAnswer = <<>>
    /\ FetchIdle
    /\ op = "openBoat"
    /\ now \in Nows
    /\ startDateStr = <<>>
    /\ durationStr = <<>>
    /\ cursorDate = nextSunday(now)
    /\ modalBoatId = Fleet[1]
    /\ boats = Fleet
    /\ reservations = <<>>
    /\ loading = FALSE
    /\ scheduleStart = startOfDay(AtMidnight(cursorDate))
    /\ scheduleEnd = scheduleEndMemo(scheduleStart)
    /\ durationDays = durationDaysMemo(durationStr)
    /\ ModalIdle
    /\ AdminIdle

\* What the dialog leaves alone.
notModal == <<reservationsForBoat, BOOKINGS, boatId, startDay, dateAfter, run,
             daysAnswer, fetch, startDateStr, durationStr, cursorDate, boats,
             reservations, loading, now, scheduleStart, scheduleEnd, durationDays,
             admin>>

\* The failed login of submitRequest: message, onClose(), the account page,
\* and the finally block.
ForceLogin ==
    /\ submitMsg' = LoginMsg
    /\ modalBoatId' = NoBoat
    /\ location' = "/account"
    /\ submitting' = FALSE

\* Click on "Request reservation": submitRequest up to its first await.
SubmitRequest ==
    /\ location = "/"
    /\ modalBoatId # NoBoat
    /\ Submits < MaxSubmits
    /\ op' = "submitRequest"
    /\ submitting' = TRUE
    /\ submitMsg' = ""
    /\ calls' = Append(calls, [id |-> Submits + 1, stage |-> "me"])
    /\ netlog' = Append(netlog, [call |-> Submits + 1, what |-> "GET /api/me",
                                 answer |-> Sent])
    /\ UNCHANGED <<modalBoatId, location, result, notModal>>

\* GET /api/me of call i is answered: submitRequest up to its second await,
\* or to its end.
MeAnswered(i, me) ==
    /\ location = "/"
    /\ calls[i].stage = "me"
    /\ result' = me
    /\ IF LoginMissing(me)
       THEN /\ op' = "finished"
            /\ calls' = Finished(calls, i)
            /\ netlog' = Append(netlog, [call |-> calls[i].id, what |-> "me",
                                         answer |-> me])
            /\ ForceLogin
       ELSE /\ op' = "meOk"
            /\ calls' = [calls EXCEPT ![i].stage = "post"]
            /\ netlog' = netlog \o
                   << [call |-> calls[i].id, what |-> "me", answer |-> me],
                      [call |-> calls[i].id,
                       what |-> "POST /api/reservations/request",
                       answer |-> Sent] >>
            /\ UNCHANGED <<submitting, submitMsg, modalBoatId, location>>
    /\ UNCHANGED notModal

\* GET /api/me of call i gets no answer: catch and finally.
MeRejected(i) ==
    /\ location = "/"
    /\ calls[i].stage = "me"
    /\ op' = "finished"
    /\ result' = Rejected
    /\ calls' = Finished(calls, i)
    /\ netlog' = Append(netlog, [call |-> calls[i].id, what |-> "me",
                                 answer |-> Rejected])
    /\ submitMsg' = FailedMsg
    /\ submitting' = FALSE
    /\ UNCHANGED <<modalBoatId, location, notModal>>

\* The POST of call i is answered: submitRequest to its end.
PostAnswered(i, post) ==
    /\ location = "/"
    /\ calls[i].stage = "post"
    /\ op' = "finished"
    /\ result' = post
    /\ calls' = Finished(calls, i)
    /\ netlog' = Append(netlog, [call |-> calls[i].id, what |-> "post",
                                 answer |-> post])
    /\ IF post.status = 401
       THEN ForceLogin
       ELSE /\ submitMsg' = IF post.status # 200 \/ ~post.dataOk
                             THEN FailedMsg ELSE SubmittedMsg
            /\ submitting' = FALSE
            /\ UNCHANGED <<modalBoatId, location>>
    /\ UNCHANGED notModal

\* The POST of call i gets no answer: catch and finally.
PostRejected(i) ==
    /\ location = "/"
    /\ calls[i].stage = "post"
    /\ op' = "finished"
    /\ result' = Rejected
    /\ calls' = Finished(calls, i)
    /\ netlog' = Append(netlog, [call |-> calls[i].id, what |-> "post",
                                 answer |-> Rejected])
    /\ submitMsg' = FailedMsg
    /\ submitting' = FALSE
    /\ UNCHANGED <<modalBoatId, location, notModal>>

\* onClose from the close button or the overlay.
CloseDialog ==
    /\ location = "/"
    /\ modalBoatId # NoBoat
    /\ modalBoatId' = NoBoat
    /\ op' = "none"
    /\ UNCHANGED <<modal, result, notModal>>

\* Click on the name of boat b of the grid, and the effect on `open`.
OpenDialog(b) ==
    /\ location = "/"
    /\ modalBoatId = NoBoat
    /\ modalBoatId' = b
    /\ op' = "openBoat"
    /\ submitMsg' = ""
    /\ submitting' = FALSE
    /\ UNCHANGED <<calls, netlog, location, result, notModal>>

ModalNext ==
    \/ SubmitRequest
    \/ \E i \in 1..Len(calls) : \E me \in MeAnswers : MeAnswered(i, me)
    \/ \E i \in 1..Len(calls) : MeRejected(i)
    \/ \E i \in 1..Len(calls) : \E post \in PostAnswers : PostAnswered(i, post)
    \/ \E i \in 1..Len(calls) : PostRejected(i)
    \/ CloseDialog
    \/ \E b \in { Fleet[1] } : OpenDialog(b)

ModalSpec == ModalInit /\ [][ModalNext]_vars

\* ------------------------------------------------------------------------
\* The admin calendar: blocking a boat
\* ------------------------------------------------------------------------

\* Upper clamp of the number of days of a block.
MaxBlockDays == 60

\* null, the value of a cancelled prompt.
PromptNull == << 0 - 1 >>

\* x || dflt on the value of a prompt: null and "" are falsy.
OrDefault(x, dflt) == IF x = PromptNull \/ x = <<>> THEN dflt ELSE x

\* dateKey of Admin.tsx: yyyy-mm-dd of the local date.
dateKey(d) ==
    DecStr(getFullYear(d)) \o <<45>> \o pad2(getMonth(d) + 1)
                           \o <<45>> \o pad2(getDate(d))

\* nDays without the clamp to 60.
blockDays_NoUpperClamp(answer) ==
    LET daysStr == OrDefault(answer, <<49>>)
        parsed == parseInt(daysStr)
    IN  Max(1, IF parsed = <<>> \/ parsed[1] = 0 THEN 1 ELSE parsed[1])

\* const daysStr = prompt(..., "1") || "1";
\* const nDays = Math.max(1, Math.min(parseInt(daysStr, 10) || 1, 60));
blockDays(answer) ==
    LET daysStr == OrDefault(answer, <<49>>)
        parsed == parseInt(daysStr)
    IN  Max(1, Min(IF parsed = <<>> \/ parsed[1] = 0 THEN 1 ELSE parsed[1],
                   MaxBlockDays))

\* The days of the admin calendar and the answers given to the prompt:
\* cancel, "", "1", "0", "-3", "60", "61", "999", "abc", "7 days", " 12",
\* "2.9".
AdminDays == { addDays(Jan10, i) : i \in 0..(WindowDays - 1) }
PromptAnswers ==
    { PromptNull, <<>>, <<49>>, <<48>>, <<45, 51>>, <<54, 48>>, <<54, 49>>,
      <<57, 57, 57>>, <<97, 98, 99>>, <<55, 32, 100, 97, 121, 115>>,
      <<32, 49, 50>>, <<50, 46, 57>> }

\* The admin calendar is shown; no block has been asked for.
AdminInit ==
    /\ reservationsForBoat = <<>>
    /\ BOOKINGS = <<>>
    /\ scheduleStart = Jan10
    /\ scheduleEnd = addDays(Jan10, WindowDays - 1)
    /\ durationDays = 1
    /\ dateAfter = 0
    /\ RunIdle
    /\ UIIdle
    /\ ExtraIdle
    /\ op = "none"
    /\ boatId = Fleet[1]
    /\ startDay = Jan10
    /\ daysAnswer = <<>>
    /\ result = [boatId |-> Fleet[1], startDate |-> dateKey(Jan10), days |-> 1]

\* block(boatId, day) on an empty cell: the body of the POST to
\* /api/admin/blocks (the note left out).
Block(b, day, answer) ==
    /\ op' = "block"
    /\ boatId' = b
    /\ startDay' = day
    /\ daysAnswer' = answer
    /\ result' = [boatId |-> b, startDate |-> dateKey(day),
                  days |-> blockDays(answer)]
    /\ UNCHANGED <<inputs, durationDays, dateAfter, run, ui, extra>>

AdminNext ==
    \E b \in {Fleet[i] : i \in 1..Len(Fleet)}, day \in AdminDays,
       answer \in PromptAnswers : Block(b, day, answer)

AdminSpec == AdminInit /\ [][AdminNext]_vars

\* ------------------------------------------------------------------------
\* The admin calendar: the cells and the clicks on them
\* ------------------------------------------------------------------------

\* Reservations in a loaded list.
MaxCalReservations == 3

\* toUpperCase on the statuses that occur.
toUpperCase(str) ==
    CASE str = "blocked" -> "BLOCKED"
      [] str = "Approved" -> "APPROVED"
      [] OTHER -> str

\* statusPriority with APPROVED and PENDING swapped.
statusPriority_PendingFirst(st) ==
    LET u == toUpperCase(st)
    IN  CASE u = "BLOCKED" -> 50
          [] u = "APPROVED" -> 30
          [] u = "PENDING" -> 40
          [] u = "DENIED" -> 20
          [] u = "CANCELLED" -> 10
          [] OTHER -> 0

statusPriority(st) ==
    LET u == toUpperCase(st)
    IN  CASE u = "BLOCKED" -> 50
          [] u = "APPROVED" -> 40
          [] u = "PENDING" -> 30
          [] u = "DENIED" -> 20
          [] u = "CANCELLED" -> 10
          [] OTHER -> 0

\* a < b on two Dates <<day, time of day>>.
DateLess(a, b) == a[1] < b[1] \/ (a[1] = b[1] /\ a[2] < b[2])

\* overlapsDay that asks for a start before the day.
overlapsDay_MissesStartDay(startIso, endIso, day) ==
    LET dayStart == <<day, 0>>
    IN  DateLess(startIso, dayStart) /\ DateLess(dayStart, endIso)

\* overlapsDay: the timestamps are kept as the Dates they parse to.
overlapsDay(startIso, endIso, day) ==
    LET dayStart == <<day, 0>>
        dayEnd == <<addDays(day, 1), 0>>
    IN  DateLess(startIso, dayEnd) /\ DateLess(dayStart, endIso)

\* map.get(key) === undefined
Undefined == [id |-> "undefined"]

\* map.get(key)
MapGet(map, key) == IF key \in DOMAIN map THEN map[key] ELSE Undefined

\* map.set(key, r)
MapSet(map, key, r) ==
    [x \in DOMAIN map \cup {key} |-> IF x = key THEN r ELSE map[x]]

\* The key of a cell.
CellKey(b, day) == <<b, dateKey(day)>>

\* dayList of the calendar.
dayList == [i \in 1..WindowDays |-> addDays(Jan10, i - 1)]

\* The inner loop of cellMap from the j-th day on.
RECURSIVE cellMapDays(_, _, _, _)
cellMapDays(map, r, ds, j) ==
    IF j > Len(ds) THEN map
    ELSE IF ~overlapsDay(r.startDate, r.endExclusive, ds[j])
         THEN cellMapDays(map, r, ds, j + 1)
         ELSE LET key == CellKey(r.boatId, ds[j])
                  ex == MapGet(map, key)
              IN  IF ex = Undefined \/ statusPriority(r.status) > statusPriority(ex.status)
                  THEN cellMapDays(MapSet(map, key, r), r, ds, j + 1)
                  ELSE cellMapDays(map, r, ds, j + 1)

\* The outer loop of cellMap from the i-th reservation on.
RECURSIVE cellMapLoop(_, _, _, _)
cellMapLoop(map, rs, ds, i) ==
    IF i > Len(rs) THEN map
    ELSE cellMapLoop(cellMapDays(map, rs[i], ds, 1), rs, ds, i + 1)

cellMap(rs, ds) == cellMapLoop(<<>>, rs, ds, 1)

\* The reservations the admin endpoint may return.
CalPool ==
    << [id |-> "r1", boatId |-> Fleet[1], status |-> "APPROVED",
        startDate |-> <<Jan10 + 1, 0>>, endExclusive |-> <<Jan10 + 3, 0>>],
       [id |-> "r2", boatId |-> Fleet[1], status |-> "blocked",
        startDate |-> <<Jan10 + 2, 1>>, endExclusive |-> <<Jan10 + 4, 1>>],
       [id |-> "r3", boatId |-> Fleet[1], status |-> "Approved",
        startDate |-> <<Jan10 + 1, 1>>, endExclusive |-> <<Jan10 + 2, 1>>],
       [id |-> "r4", boatId |-> Fleet[1], status |-> "PENDING",
        startDate |-> <<Jan10, 1>>, endExclusive |-> <<Jan10 + 2, 0>>],
       [id |-> "r5", boatId |-> Fleet[2], status |-> "CANCELLED",
        startDate |-> <<Jan10 + 1, 0>>, endExclusive |-> <<Jan10 + 2, 1>>],
       [id |-> "r6", boatId |-> Fleet[2], status |-> "EXPIRED",
        startDate |-> <<Jan10 + 1, 1>>, endExclusive |-> <<Jan10 + 3, 0>>] >>

\* The lists the endpoint may return: up to n reservations of the pool, in
\* its order or in the reverse order.
CalLists(n) ==
    UNION { { [i \in 1..m |-> CalPool[ix[i]]] :
                ix \in { f \in [1..m -> 1..Len(CalPool)] :
                            \/ \A i \in 1..(m - 1) : f[i] < f[i + 1]
                            \/ \A i \in 1..(m - 1) : f[i] > f[i + 1] } } : m \in 0..n }

\* No request is sent.
NoRequest == [method |-> "none"]

\* The cells that are clicked.
ClickDays == { Jan10 + 1, Jan10 + 2 }

\* The calendar is shown and its first load has been answered.
CalendarInit ==
    /\ reservationsForBoat = <<>>
    /\ BOOKINGS = <<>>
    /\ scheduleStart = Jan10
    /\ scheduleEnd = addDays(Jan10, WindowDays - 1)
    /\ durationDays = 1
    /\ dateAfter = 0
    /\ RunIdle
    /\ UIIdle
    /\ FetchIdle
    /\ ModalIdle
    /\ op = "load"
    /\ boatId = Fleet[1]
    /\ startDay = Jan10
    /\ daysAnswer = <<>>
    /\ result = NoRequest
    /\ calReservations \in CalLists(1)
    /\ items = <<>>
    /\ busyId = ""
    /\ error = ""
    /\ token = "jwt"
    /\ acting = <<>>

\* What the calendar leaves alone.
notCalendar == <<inputs, durationDays, dateAfter, run, ui, fetch, modal,
                items, busyId, error, token, acting>>

\* The end of block and unblock: load() after a request that succeeded,
\* alert after one that failed.
AfterRequest ==
    \/ UNCHANGED calReservations
    \/ \E rs \in CalLists(1) : calReservations' = rs

\* onClick of the cell of boat b and day `day`, with the answers given to
\* prompt and confirm.
CellClick(b, day) ==
    LET r == MapGet(cellMap(calReservations, dayList), CellKey(b, day))
    IN  /\ boatId' = b
        /\ startDay' = day
        /\ IF r = Undefined
           THEN \E answer \in {PromptNull, <<51>>} :
                  /\ op' = "block"
                  /\ daysAnswer' = answer
                  /\ result' = [method |-> "POST", boatId |-> b,
                                startDate |-> dateKey(day),
                                days |-> blockDays(answer)]
                  /\ AfterRequest
           ELSE IF toUpperCase(r.status) = "BLOCKED"
           THEN /\ UNCHANGED daysAnswer
                /\ \/ /\ op' = "unblock"
                      /\ result' = [method |-> "DELETE", id |-> r.id]
                      /\ AfterRequest
                   \/ /\ op' = "unblock cancelled"
                      /\ result' = NoRequest
                      /\ UNCHANGED calReservations
           ELSE /\ op' = "alert"
                /\ result' = NoRequest
                /\ UNCHANGED <<daysAnswer, calReservations>>
        /\ UNCHANGED notCalendar

\* load() of the effect on start and days is answered.
CalendarLoaded(rs) ==
    /\ op' = "load"
    /\ result' = NoRequest
    /\ calReservations' = rs
    /\ UNCHANGED <<boatId, startDay, daysAnswer, notCalendar>>

CalendarNext ==
    \/ \E b \in { Fleet[i] : i \in 1..Len(Fleet) }, day \in ClickDays : CellClick(b, day)
    \/ \E rs \in CalLists(MaxCalReservations) : CalendarLoaded(rs)

CalendarSpec == CalendarInit /\ [][CalendarNext]_vars

\* ------------------------------------------------------------------------
\* The admin reservation list: approve and deny
\* ------------------------------------------------------------------------

\* Calls of act that may be unfinished at a time.
MaxActing == 2

\* The lists /api/admin/reservations may return.
ItemLists ==
    { <<>>,
      << [id |-> "i1", status |-> "PENDING", boatName |-> "Excess 11"],
         [id |-> "i2", status |-> "PENDING", boatName |-> "Lagoon 46"] >>,
      << [id |-> "i2", status |-> "APPROVED", boatName |-> "Lagoon 46"],
         [id |-> "i1", status |-> "PENDING", boatName |-> "Excess 11"],
         [id |-> "i3", status |-> "CANCELLED", boatName |-> "Excess 11"] >> }

\* The ids act is called with: the ids of the lists and one of none.
ItemIds == {"i1", "i2", "i3", "i9"}

\* The update of setItems applied to every item.
withStatus_EveryItem(prev, id, action) ==
    [j \in 1..Len(prev) |->
        [prev[j] EXCEPT !.status = IF action = "approve" THEN "APPROVED"
                                                         ELSE "DENIED"]]

\* prev.map((r) => (r.id === id ? { ...r, status: ... } : r))
withStatus(prev, id, action) ==
    [j \in 1..Len(prev) |->
        IF prev[j].id = id
        THEN [prev[j] EXCEPT !.status = IF action = "approve" THEN "APPROVED"
                                                              ELSE "DENIED"]
        ELSE prev[j]]

\* The calls without the i-th.
Returned(cs, i) == SubSeq(cs, 1, i - 1) \o SubSeq(cs, i + 1, Len(cs))

\* No call of act has been made.
NoAct == [id |-> "", action |-> ""]

\* The admin is logged in and the list is loaded.
ListInit ==
    /\ reservationsForBoat = <<>>
    /\ BOOKINGS = <<>>
    /\ scheduleStart = Jan10
    /\ scheduleEnd = addDays(Jan10, WindowDays - 1)
    /\ durationDays = 1
    /\ dateAfter = 0
    /\ RunIdle
    /\ UIIdle
    /\ FetchIdle
    /\ ModalIdle
    /\ op = "load"
    /\ boatId = Fleet[1]
    /\ startDay = Jan10
    /\ daysAnswer = <<>>
    /\ result = NoAct
    /\ calReservations = <<>>
    /\ items \in ItemLists
    /\ busyId = ""
    /\ error = ""
    /\ token = "jwt"
    /\ acting = <<>>

\* What the list leaves alone.
notList == <<inputs, durationDays, dateAfter, run, ui, fetch, modal, boatId,
            startDay, daysAnswer, calReservations>>

\* act(id, action) up to its await.
Act(id, action) ==
    /\ Len(acting) < MaxActing
    /\ result' = [id |-> id, action |-> action]
    /\ IF token = ""
       THEN /\ op' = "act ignored"
            /\ UNCHANGED <<busyId, error, acting>>
       ELSE /\ op' = "act"
            /\ busyId' = id
            /\ error' = ""
            /\ acting' = Append(acting, [id |-> id, action |-> action])
    /\ UNCHANGED <<items, token, notList>>

\* The request of the i-th call is answered: act to its end.
ActAnswered(i, ok) ==
    /\ result' = acting[i]
    /\ acting' = Returned(acting, i)
    /\ IF ok
       THEN /\ op' = "act ok"
            /\ items' = withStatus(items, acting[i].id, acting[i].action)
            /\ UNCHANGED error
       ELSE /\ op' = "act failed"
            /\ error' = "Action failed"
            /\ UNCHANGED items
    /\ busyId' = ""
    /\ UNCHANGED <<token, notList>>

\* loadReservations, answered with a list.
ItemsLoaded(list) ==
    /\ token # ""
    /\ op' = "load"
    /\ result' = NoAct
    /\ items' = list
    /\ error' = ""
    /\ UNCHANGED <<busyId, token, acting, notList>>

\* logout
Logout ==
    /\ token # ""
    /\ op' = "logout"
    /\ result' = NoAct
    /\ token' = ""
    /\ items' = <<>>
    /\ error' = ""
    /\ UNCHANGED <<busyId, acting, notList>>

\* login, answered with a token.
Login ==
    /\ token = ""
    /\ op' = "login"
    /\ result' = NoAct
    /\ token' = "jwt"
    /\ error' = ""
    /\ UNCHANGED <<items, busyId, acting, notList>>

ListNext ==
    \/ \E id \in ItemIds, action \in {"approve", "deny"} : Act(id, action)
    \/ \E i \in 1..Len(acting), ok \in BOOLEAN : ActAnswered(i, ok)
    \/ \E list \in ItemLists : ItemsLoaded(list)
    \/ Logout
    \/ Login

ListSpec == ListInit /\ [][ListNext]_vars

\* ------------------------------------------------------------------------
\* The data model of the ranges, in day numbers
\* ------------------------------------------------------------------------

\* Day d lies in [start, end) of an API reservation.
ApiCovers(r, d) ==
    fromISODate(r.startDate) <= d /\ d < fromISODate(r.endExclusive)

\* Day d lies in [start, end) of a legacy range, or is its start day when
\* the end is missing.
LegacyCovers(r, d) ==
    IF r.end = <<>> THEN d = fromISODate(r.start)
    ELSE fromISODate(r.start) <= d /\ d < fromISODate(r.end)

\* Some reservation of the boat covers day d.
ApiBooked(d) ==
    \E i \in 1..Len(reservationsForBoat) : ApiCovers(reservationsForBoat[i], d)

\* Some legacy range of boat b covers day d.
LegacyBooked(b, d) ==
    \E i \in 1..Len(BookingsOf(BOOKINGS, b)) :
        LegacyCovers(BookingsOf(BOOKINGS, b)[i], d)

\* Day d is inside the schedule window [scheduleStart, scheduleEnd].
InWindow(d) == scheduleStart <= d /\ d <= scheduleEnd

\* Every day of [s, s + n) is inside the schedule window and unbooked.
FreeRun(s, n) ==
    \A i \in 0..(n - 1) : InWindow(s + i) /\ ~ApiBooked(s + i)

\* The range list of scenario A: [{start: "2026-01-11", end: "2026-01-13"}].
ScenarioA == << ApiRange(<<Jan10 + 1, Jan10 + 3>>) >>

\* The schedule window is the 14 days from 2026-01-10.
ScenarioWindow ==
    scheduleStart = Jan10 /\ scheduleEnd = Jan10 + WindowDays - 1

\* ------------------------------------------------------------------------
\* C1
\* ------------------------------------------------------------------------

\* C1: isBookedForDate and the legacy isBooked return true exactly when some
\* range of the list has start <= day < end (for a legacy range without end:
\* day = start); with the single range [2026-01-11, 2026-01-13) exactly the
\* days 01-11 and 01-12 are booked, and an empty list books no day.
C1_IsBookedIffInSomeRange ==
    /\ op = "isBookedForDate" =>
        /\ result <=> ApiBooked(startDay)
        /\ reservationsForBoat = ScenarioA =>
              (result <=> startDay \in {Jan10 + 1, Jan10 + 2})
        /\ reservationsForBoat = <<>> => ~result
    /\ op = "isBooked" =>
        /\ result <=> LegacyBooked(boatId, startDay)
        /\ BookingsOf(BOOKINGS, boatId) = <<>> => ~result

\* Scenario A was evaluated: 01-12 is found booked by both functions' data.
C1_Witness ==
    /\ op = "isBookedForDate"
    /\ reservationsForBoat = ScenarioA
    /\ startDay = Jan10 + 2
    /\ result = TRUE

\* ------------------------------------------------------------------------
\* C2
\* ------------------------------------------------------------------------

\* C2: for a duration d > 1, windowFits is true exactly when every day of
\* [startDay, startDay + d) is inside [scheduleStart, scheduleEnd] and
\* unbooked; scenario B (ranges [01-11, 01-13), 14-day window from 01-10,
\* startDay 01-13, d = 3) gives true.
C2_WindowFitsIsConjunction ==
    op = "windowFits" /\ durationDays > 1 =>
        /\ result <=> FreeRun(startDay, durationDays)
        /\ (/\ reservationsForBoat = ScenarioA
            /\ ScenarioWindow
            /\ startDay = Jan10 + 3
            /\ durationDays = 3) => result

\* Scenario B was evaluated and fits.
C2_Witness ==
    /\ op = "windowFits"
    /\ reservationsForBoat = ScenarioA
    /\ ScenarioWindow
    /\ startDay = Jan10 + 3
    /\ durationDays = 3
    /\ result = TRUE

\* ------------------------------------------------------------------------
\* C3
\* ------------------------------------------------------------------------

\* C3: for duration 1, windowFits (and the legacy computeWindowFits) equals
\* the negation of isBooked at startDay, whatever the schedule window is.
C3_OneDayIgnoresWindow ==
    /\ op = "windowFits" /\ durationDays = 1 =>
          (result <=> ~isBookedForDate(reservationsForBoat, toISODate(startDay)))
    /\ op = "computeWindowFits" /\ durationDays = 1 =>
          (result <=> ~isBooked(BOOKINGS, boatId, startDay))

\* A one-day request that starts after scheduleEnd was found to fit.
C3_Witness ==
    /\ op = "windowFits"
    /\ durationDays = 1
    /\ startDay > scheduleEnd
    /\ result = TRUE

\* ------------------------------------------------------------------------
\* C4
\* ------------------------------------------------------------------------

\* C4: maxDurationFrom never returns a value below 1.
C4_MaxDurationAtLeastOne ==
    op = "maxDurationFrom" => result >= 1

\* Scenario C: startDay 01-11 is booked, desired 5, and the result is 1.
C4_Witness ==
    /\ op = "maxDurationFrom"
    /\ reservationsForBoat = ScenarioA
    /\ startDay = Jan10 + 1
    /\ durationDays = 5
    /\ result = 1

\* ------------------------------------------------------------------------
\* C5
\* ------------------------------------------------------------------------

\* C5 as stated: for every integer desired, maxDurationFrom returns at most
\* min(desired, 30).
C5_Original ==
    op = "maxDurationFrom" => result <= Min(durationDays, MaxDurationDays)

\* C5 amended: for every desired >= 1, maxDurationFrom returns at most
\* min(desired, 30).
C5_AtMostMinDesired30 ==
    op = "maxDurationFrom" /\ durationDays >= 1 =>
        result <= Min(durationDays, MaxDurationDays)

\* 31 days were desired, all free and in the window, and 30 were returned.
C5_Witness ==
    /\ op = "maxDurationFrom"
    /\ durationDays = 31
    /\ FreeRun(startDay, 31)
    /\ result = MaxDurationDays

\* ------------------------------------------------------------------------
\* C6
\* ------------------------------------------------------------------------

\* C6 as stated: whenever windowFits holds for the desired duration,
\* maxDurationFrom returns the desired duration.
C6_Original ==
    (/\ op = "maxDurationFrom"
     /\ windowFits(reservationsForBoat, startDay, durationDays,
                   scheduleStart, scheduleEnd))
        => result = durationDays

\* C6 amended: for 1 <= desired <= 30, whenever windowFits holds for the
\* desired duration, maxDurationFrom returns the desired duration.
C6_FitsImpliesFullDuration ==
    (/\ op = "maxDurationFrom"
     /\ durationDays >= 1
     /\ durationDays <= MaxDurationDays
     /\ windowFits(reservationsForBoat, startDay, durationDays,
                   scheduleStart, scheduleEnd))
        => result = durationDays

\* A 14-day request that fits the window was evaluated and kept whole.
C6_Witness ==
    /\ op = "maxDurationFrom"
    /\ durationDays = 14
    /\ windowFits(reservationsForBoat, startDay, durationDays,
                  scheduleStart, scheduleEnd)
    /\ result = 14

\* ------------------------------------------------------------------------
\* C7
\* ------------------------------------------------------------------------

\* clamp(desiredDays, 1, 30)
ClampedDesired(n) == Max(1, Min(n, MaxDurationDays))

\* The days from s on that are unbooked and inside the window, among the
\* first c.
FreeDaysFrom(s, c) ==
    { i \in 0..(c - 1) : InWindow(s + i) /\ ~ApiBooked(s + i) }

\* The largest n in [0, c] with the days s .. s + n - 1 all unbooked and
\* inside the window.
LongestFreeRun(s, c) ==
    LET free == FreeDaysFrom(s, c)
    IN  CHOOSE n \in 0..c :
            /\ \A i \in 0..(n - 1) : i \in free
            /\ \A m \in (n + 1)..c : \E i \in 0..(m - 1) : i \notin free

\* C7: maxDurationFrom returns max(1, n), n being the largest number in
\* [0, clamp(desiredDays, 1, 30)] such that the n days from startDay on are
\* all unbooked and inside the window (free days after a gap do not count).
C7_MaxDurationIsLongestRun ==
    op = "maxDurationFrom" =>
        result = Max(1, LongestFreeRun(startDay, ClampedDesired(durationDays)))

\* Two free days, then a booked one, then free days again: the result is 2.
C7_Witness ==
    /\ op = "maxDurationFrom"
    /\ durationDays = 5
    /\ FreeRun(startDay, 2)
    /\ ApiBooked(startDay + 2)
    /\ InWindow(startDay + 4) /\ ~ApiBooked(startDay + 4)
    /\ result = 2

\* ------------------------------------------------------------------------
\* C8
\* ------------------------------------------------------------------------

\* Some block of n days starting at an offset in [0, 14) lies within the 14
\* days from scheduleStart and has no booked day.
SomeBlockFits(n) ==
    \E o \in 0..(WindowDays - 1) :
        \A i \in 0..(n - 1) :
            /\ o + i < WindowDays
            /\ ~ApiBooked(scheduleStart + o + i)

\* The same for the legacy ranges of boat b.
SomeLegacyBlockFits(b, n) ==
    \E o \in 0..(WindowDays - 1) :
        \A i \in 0..(n - 1) :
            /\ o + i < WindowDays
            /\ ~LegacyBooked(b, scheduleStart + o + i)

\* C8 as stated: hasAnyAvailableWindow is true exactly when some block of
\* durationDays days fits the 14-day window without a booked day.
C8_Original ==
    op = "hasAnyAvailableWindow" => (result <=> SomeBlockFits(durationDays))

\* C8 amended: hasAnyAvailableWindow (and the legacy hasAvailabilityWindow)
\* is true exactly when durationDays <= 1 or some block of durationDays days
\* fits the 14-day window without a booked day.
C8_AnyWindowIffBlockFits ==
    /\ op = "hasAnyAvailableWindow" =>
          (result <=> (durationDays <= 1 \/ SomeBlockFits(durationDays)))
    /\ op = "hasAvailabilityWindow" =>
          (result <=> (durationDays <= 1
                         \/ SomeLegacyBlockFits(boatId, durationDays)))

\* A 5-day block was found although the first days of the window are not
\* all free.
C8_Witness ==
    /\ op = "hasAnyAvailableWindow"
    /\ durationDays = 5
    /\ ~FreeRun(scheduleStart, 5)
    /\ result = TRUE

\* ------------------------------------------------------------------------
\* C9
\* ------------------------------------------------------------------------

\* C9: hasAnyAvailableWindow with durationDays = 1 is true for every range
\* list and scheduleStart.
C9_OneDayAlwaysAvailable ==
    op = "hasAnyAvailableWindow" /\ durationDays = 1 => result = TRUE

\* All 14 days of the window are booked and the answer for one day is true.
C9_Witness ==
    /\ op = "hasAnyAvailableWindow"
    /\ durationDays = 1
    /\ \A i \in 0..(WindowDays - 1) : ApiBooked(scheduleStart + i)
    /\ result = TRUE

\* ------------------------------------------------------------------------
\* C10
\* ------------------------------------------------------------------------

\* The end is present and not after the start.
ApiDegenerate(r) == fromISODate(r.endExclusive) <= fromISODate(r.startDate)
LegacyDegenerate(r) ==
    r.end # <<>> /\ fromISODate(r.end) <= fromISODate(r.start)

ApiProper(r) == ~ApiDegenerate(r)
LegacyProper(r) == ~LegacyDegenerate(r)

\* The lists without their degenerate ranges.
ProperReservations == SelectSeq(reservationsForBoat, ApiProper)
ProperBookings ==
    [b \in DOMAIN BOOKINGS |-> SelectSeq(BOOKINGS[b], LegacyProper)]

\* The days the calls of the model look at.
ProbeDays == (scheduleStart - 1)..(scheduleStart + LongWindowDays)

\* C10: a range with end <= start books no day, not even its start day, and
\* removing it from the list changes the result of no function.  (The first
\* part speaks of the range list alone and is evaluated before the call.)
C10_DegenerateRangeCoversNothing ==
    /\ op = "none" =>
        /\ \A i \in 1..Len(reservationsForBoat) :
              ApiDegenerate(reservationsForBoat[i]) =>
                 \A d \in ProbeDays :
                    ~isBookedForDate(<<reservationsForBoat[i]>>, toISODate(d))
        /\ \A i \in 1..Len(BOOKINGS[KnownBoat]) :
              LegacyDegenerate(BOOKINGS[KnownBoat][i]) =>
                 \A d \in ProbeDays :
                    ~isBooked([b \in {KnownBoat} |-> <<BOOKINGS[KnownBoat][i]>>],
                              KnownBoat, d)
    /\ op = "isBookedForDate" =>
          result = isBookedForDate(ProperReservations, toISODate(startDay))
    /\ op = "windowFits" =>
          result = windowFits(ProperReservations, startDay, durationDays,
                              scheduleStart, scheduleEnd)
    /\ op = "maxDurationFrom" =>
          result = maxDurationFrom(ProperReservations, startDay, durationDays,
                                   scheduleStart, scheduleEnd)
    /\ op = "hasAnyAvailableWindow" =>
          result = hasAnyAvailableWindow(ProperReservations, scheduleStart,
                                         durationDays)
    /\ op = "isBooked" => result = isBooked(ProperBookings, boatId, startDay)
    /\ op = "computeWindowFits" =>
          result = computeWindowFits(ProperBookings, boatId, startDay,
                                     durationDays, scheduleStart, scheduleEnd)
    /\ op = "hasAvailabilityWindow" =>
          result = hasAvailabilityWindow(ProperBookings, boatId, scheduleStart,
                                         durationDays)

\* The start day of a range with end = start was asked for and is not booked.
C10_Witness ==
    /\ op = "isBookedForDate"
    /\ \E i \in 1..Len(reservationsForBoat) :
          /\ ApiDegenerate(reservationsForBoat[i])
          /\ fromISODate(reservationsForBoat[i].startDate) = startDay
    /\ result = FALSE

\* ------------------------------------------------------------------------
\* C11
\* ------------------------------------------------------------------------

\* The legacy ranges of boat b with an end, and the start days (day numbers)
\* of those without.
RangesWithEnd(b) == SelectSeq(BookingsOf(BOOKINGS, b), LAMBDA r : r.end # <<>>)
SingleDays(b) ==
    { fromISODate(BookingsOf(BOOKINGS, b)[i].start) :
        i \in { j \in 1..Len(BookingsOf(BOOKINGS, b)) :
                  BookingsOf(BOOKINGS, b)[j].end = <<>> } }

\* The fixture of scenario D: [{start: "2026-01-14"}].
ScenarioD == << BookingRange(<<Jan10 + 4, NoEnd>>) >>

\* C11: a legacy range without end books its start day and no other day (the
\* range {start: 2026-01-14} books 01-14 and not 01-15), side by side with the
\* exclusive-end ranges of the same list: isBooked is true exactly on the
\* start days of the ranges without end and on the days the other ranges book.
C11_MissingEndIsOneDay ==
    op = "isBooked" =>
        /\ result <=>
              \/ startDay \in SingleDays(boatId)
              \/ isBooked([b \in {boatId} |-> RangesWithEnd(boatId)],
                          boatId, startDay)
        /\ BookingsOf(BOOKINGS, boatId) = ScenarioD =>
              (result <=> startDay = Jan10 + 4)

\* Scenario D was evaluated on 01-15, the day after the single day, next to
\* an exclusive-end range in the same list: not booked.
C11_Witness ==
    /\ op = "isBooked"
    /\ boatId = KnownBoat
    /\ Len(BOOKINGS[KnownBoat]) = 2
    /\ SingleDays(KnownBoat) = {Jan10 + 4}
    /\ startDay = Jan10 + 5
    /\ result = FALSE

\* ------------------------------------------------------------------------
\* C12
\* ------------------------------------------------------------------------

\* C12: maxDurationFrom clamps desiredDays to [1, 30] itself: the result is
\* at most 30, for desiredDays > 30 it is the result for 30, and for
\* desiredDays < 1 it is the result for 1.
C12_ReclampsDesired ==
    op = "maxDurationFrom" =>
        /\ result <= MaxDurationDays
        /\ durationDays > MaxDurationDays =>
              result = maxDurationFrom(reservationsForBoat, startDay,
                           MaxDurationDays, scheduleStart, scheduleEnd)
        /\ durationDays < 1 =>
              result = maxDurationFrom(reservationsForBoat, startDay, 1,
                                       scheduleStart, scheduleEnd)

\* 31 days were desired; the 31st day is free and in the window, and is not
\* counted.
C12_Witness ==
    /\ op = "maxDurationFrom"
    /\ durationDays > MaxDurationDays
    /\ InWindow(startDay + MaxDurationDays)
    /\ ~ApiBooked(startDay + MaxDurationDays)
    /\ result = MaxDurationDays

\* ------------------------------------------------------------------------
\* C13
\* ------------------------------------------------------------------------

\* {start} written as the explicit pair {start, end = start + 1 day}.
ExplicitPair(r) ==
    IF r.end = <<>>
    THEN [start |-> r.start,
          end |-> toISODate(addDays(fromISODate(r.start), 1))]
    ELSE r

\* The legacy table with every range without end made explicit.
NormalizedBookings ==
    [b \in DOMAIN BOOKINGS |->
        [i \in 1..Len(BOOKINGS[b]) |-> ExplicitPair(BOOKINGS[b][i])]]

\* C13: replacing every legacy range {start} by {start, end = start + 1 day}
\* changes the result of isBooked for no day, and so of computeWindowFits and
\* hasAvailabilityWindow for no input.
C13_NormalizationPreservesResults ==
    /\ op = "isBooked" =>
          result = isBooked(NormalizedBookings, boatId, startDay)
    /\ op = "computeWindowFits" =>
          result = computeWindowFits(NormalizedBookings, boatId, startDay,
                       durationDays, scheduleStart, scheduleEnd)
    /\ op = "hasAvailabilityWindow" =>
          result = hasAvailabilityWindow(NormalizedBookings, boatId,
                                         scheduleStart, durationDays)

\* A block starting on the single day of a range without end was evaluated
\* and does not fit.
C13_Witness ==
    /\ op = "computeWindowFits"
    /\ boatId = KnownBoat
    /\ startDay \in SingleDays(KnownBoat)
    /\ NormalizedBookings # BOOKINGS
    /\ durationDays = 2
    /\ result = FALSE

\* ------------------------------------------------------------------------
\* C14
\* ------------------------------------------------------------------------

\* After a call of one of the four operations the Date argument handed to
\* addDays has the value it was passed with, and calling again on the
\* arguments as they are now gives the same result.
ArgumentsIntact ==
    /\ op = "isBookedForDate" =>
          /\ dateAfter = startDay
          /\ result = isBookedForDate(reservationsForBoat, toISODate(dateAfter))
    /\ op = "windowFits" =>
          /\ dateAfter = startDay
          /\ result = windowFits(reservationsForBoat, dateAfter, durationDays,
                                 scheduleStart, scheduleEnd)
    /\ op = "maxDurationFrom" =>
          /\ dateAfter = startDay
          /\ result = maxDurationFrom(reservationsForBoat, dateAfter,
                          durationDays, scheduleStart, scheduleEnd)
    /\ op = "hasAnyAvailableWindow" =>
          /\ dateAfter = scheduleStart
          /\ result = hasAnyAvailableWindow(reservationsForBoat, dateAfter,
                                            durationDays)

ReturnedValue ==
    pc = "done" =>
        /\ op = "isBookedForDate" =>
              /\ result \in BOOLEAN
              /\ result = isBookedForDate(reservationsForBoat, toISODate(startDay))
        /\ op = "windowFits" =>
              /\ result \in BOOLEAN
              /\ result = windowFits(reservationsForBoat, startDay, durationDays,
                                     scheduleStart, scheduleEnd)
        /\ op = "maxDurationFrom" =>
              /\ result \in Int
              /\ result = maxDurationFrom(reservationsForBoat, startDay,
                              durationDays, scheduleStart, scheduleEnd)
        /\ op = "hasAnyAvailableWindow" =>
              /\ result \in BOOLEAN
              /\ result = hasAnyAvailableWindow(reservationsForBoat,
                                                scheduleStart, durationDays)

\* C15: each of the four operations is total: for every range list, dates
\* and duration (zero, negative and large ones included) the call terminates
\* and returns a boolean (an integer for maxDurationFrom).
C15_CallsTerminate ==
    /\ []ReturnedValue
    /\ <>(pc = "done")

\* A scan of the window for a block of 1000 days has come to its end.
C15_Witness ==
    /\ pc = "done"
    /\ op = "hasAnyAvailableWindow"
    /\ durationDays = 1000
    /\ offset = WindowDays
    /\ result = FALSE

\* ------------------------------------------------------------------------
\* C16 .. C20: the scheduler page
\* ------------------------------------------------------------------------

\* Boat b is booked on day d in the loaded reservations, by calendar dates.
UIBooked(b, d) ==
    \E i \in 1..Len(reservations) :
        /\ reservations[i].boatId = b
        /\ fromISODate(reservations[i].startDate) <= d
        /\ d < fromISODate(reservations[i].endExclusive)

\* The visible window is the fourteen days from the cursor day on.
WindowIsFourteenDays ==
    /\ scheduleStart = cursorDate
    /\ scheduleEnd = scheduleStart + 13
    /\ scheduleEnd >= scheduleStart
    /\ Len(days(scheduleStart)) = 14
    /\ \A i \in 1..14 : days(scheduleStart)[i] = scheduleStart + (i - 1)

\* C16: in every reachable state of the page the visible window has exactly
\* 14 consecutive days with scheduleEnd = scheduleStart + 13 days, and each
\* press of Past / Future moves scheduleStart by exactly 14 days.
C16_WindowIsFourteenDays ==
    /\ []WindowIsFourteenDays
    /\ [][\A dir \in {0 - 1, 1} :
             Shift(dir) => scheduleStart' = scheduleStart + 14 * dir]_vars

\* The start date 01-14 was picked and Future pressed once.
C16_Witness ==
    /\ startDateStr = toISODate(Jan10 + 4)
    /\ scheduleStart = Jan10 + 18
    /\ scheduleEnd = Jan10 + 31

\* C17: durationDays is an integer in [1, 30]: an empty, zero or
\* non-numeric duration field gives 1, a value above 30 gives 30, and a cell
\* click keeps it in [1, 30].
C17_DurationInOneToThirty ==
    /\ durationDays \in 1..30
    /\ durationStr = StripNonDigits(durationStr)
    /\ (durationStr = <<>> \/ ParseInt(durationStr) = 0) => durationDays = 1
    /\ ParseInt(durationStr) > 30 => durationDays = 30
    /\ ParseInt(durationStr) \in 1..30 => durationDays = ParseInt(durationStr)

\* A cell click has rewritten the duration field with "1".
C17_Witness ==
    /\ op = "onClickOpenCell"
    /\ durationStr = <<49>>
    /\ durationDays = 1

\* C19: a click on an open cell (boat b, day d of the grid, d not booked for
\* b) sets the start date to d, opens the dialog for b, and leaves a
\* duration n with 1 <= n <= previous duration such that every day of
\* [d, d + n) is unbooked for b and inside the window visible at the click:
\* windowFits(r, d, n, scheduleStart, scheduleEnd) holds at the click.
C19_ClickShrinksToFit ==
    [][\A b \in {Fleet[i] : i \in 1..Len(Fleet)}, i \in 1..WindowDays :
         (op' = "onClickOpenCell" /\ ClickOpenCell(b, i)) =>
            LET d == scheduleStart + (i - 1)
                n == durationDays'
            IN  /\ startDateStr' = toISODate(d)
                /\ modalBoatId' = b
                /\ 1 <= n /\ n <= durationDays
                /\ \A j \in 0..(n - 1) :
                      /\ scheduleStart <= d + j /\ d + j <= scheduleEnd
                      /\ ~UIBooked(b, d + j)
                /\ windowFits(reservationsByBoat(reservations, b), d, n,
                              scheduleStart, scheduleEnd)]_vars

\* A click on 01-11 of the first boat, booked from 01-13 on, has left two
\* days.
C19_Witness ==
    /\ op = "onClickOpenCell"
    /\ modalBoatId = Fleet[1]
    /\ startDateStr = toISODate(Jan10 + 1)
    /\ durationStr = <<50>>
    /\ UIBooked(Fleet[1], Jan10 + 3)
    /\ ~UIBooked(Fleet[1], Jan10 + 2)

\* C20: every boat shown in the grid has an available window of
\* durationDays days in the visible 14-day view: a start day of the view from
\* which durationDays consecutive days are all unbooked and inside the view.
C20_ShownBoatsHaveWindow ==
    \A b \in BoatsShown :
        \E o \in 0..(WindowDays - 1) :
            \A j \in 0..(durationDays - 1) :
                /\ o + j < WindowDays
                /\ ~UIBooked(b, scheduleStart + o + j)

\* ------------------------------------------------------------------------
\* C18
\* ------------------------------------------------------------------------

\* The answer is a non-empty string of decimal digits.
TypedNumber(answer) == answer # <<>> /\ StripNonDigits(answer) = answer

\* C18: the number of days sent in an admin block request is an integer in
\* [1, 60] whatever the admin types: empty, non-numeric, zero or negative
\* input gives 1 and input above 60 gives 60.
C18_BlockDaysInOneToSixty ==
    op = "block" =>
        /\ result.days \in 1..60
        /\ daysAnswer = <<>> => result.days = 1
        /\ StripNonDigits(daysAnswer) = <<>> => result.days = 1
        /\ (TypedNumber(daysAnswer) /\ ParseInt(daysAnswer) = 0)
               => result.days = 1
        /\ (daysAnswer # <<>> /\ Head(daysAnswer) = 45
              /\ TypedNumber(Tail(daysAnswer))) => result.days = 1
        /\ (TypedNumber(daysAnswer) /\ ParseInt(daysAnswer) > 60)
               => result.days = 60
        /\ (TypedNumber(daysAnswer) /\ ParseInt(daysAnswer) \in 1..60)
               => result.days = ParseInt(daysAnswer)

\* The admin has answered "999".
C18_Witness ==
    /\ op = "block"
    /\ daysAnswer = <<57, 57, 57>>
    /\ result.days = 60

\* ------------------------------------------------------------------------
\* C25 .. C27: relations between the booking utilities
\* ------------------------------------------------------------------------

\* C25: for durationDays > 1, hasAnyAvailableWindow equals the existence of
\* a day s among the 14 window days with windowFits(R, s, durationDays,
\* scheduleStart, scheduleStart + 13 days); it is false for every
\* durationDays > 14, even on the empty list.
C25_AnyWindowIsSomeWindowFits ==
    (op = "hasAnyAvailableWindow" /\ durationDays > 1) =>
        /\ result <=>
              \E o \in 0..13 :
                  windowFits(reservationsForBoat, scheduleStart + o,
                             durationDays, scheduleStart, scheduleStart + 13)
        /\ durationDays > 14 => result = FALSE

\* Fifteen days were asked for on the empty list.
C25_Witness ==
    /\ op = "hasAnyAvailableWindow"
    /\ durationDays = 15
    /\ reservationsForBoat = <<>>
    /\ result = FALSE

\* C26: windowFits is downward closed in the duration (true for d >= 1
\* means true for every d' in 1..d), and maxDurationFrom is non-decreasing
\* in desiredDays.
C26_MonotoneInDuration ==
    /\ (op = "windowFits" /\ durationDays >= 1 /\ result = TRUE) =>
          \A d \in 1..durationDays :
              windowFits(reservationsForBoat, startDay, d,
                         scheduleStart, scheduleEnd)
    /\ op = "maxDurationFrom" =>
          \A m \in DurationChoices \cup {durationDays - 1} :
              m <= durationDays =>
                  maxDurationFrom(reservationsForBoat, startDay, m,
                                  scheduleStart, scheduleEnd) <= result

\* A block of 5 days fits from a start day inside the window, and at least
\* one range is in the list.
C26_Witness ==
    /\ op = "windowFits"
    /\ durationDays = 5
    /\ result = TRUE
    /\ reservationsForBoat # <<>>

\* A legacy range list written as a list of server ranges, and back.
AsApiRanges(ranges) ==
    [i \in 1..Len(ranges) |->
        [startDate |-> ranges[i].start, endExclusive |-> ranges[i].end]]
AsBookings(rs) ==
    [b \in {KnownBoat} |->
        [i \in 1..Len(rs) |-> [start |-> rs[i].startDate,
                               end |-> rs[i].endExclusive]]]

\* Every legacy range of boat b has an end.
AllHaveEnd(b) ==
    \A i \in 1..Len(BookingsOf(BOOKINGS, b)) :
        BookingsOf(BOOKINGS, b)[i].end # <<>>

\* C27: on range lists in which every range has both bounds, isBooked,
\* computeWindowFits and hasAvailabilityWindow return what isBookedForDate,
\* windowFits and hasAnyAvailableWindow return, for every day, duration and
\* window.
C27_LegacyEqualsServerBacked ==
    /\ (op = "isBooked" /\ AllHaveEnd(boatId)) =>
          result = isBookedForDate(AsApiRanges(BookingsOf(BOOKINGS, boatId)),
                                   toISODate(startDay))
    /\ (op = "computeWindowFits" /\ AllHaveEnd(boatId)) =>
          result = windowFits(AsApiRanges(BookingsOf(BOOKINGS, boatId)),
                              startDay, durationDays, scheduleStart, scheduleEnd)
    /\ (op = "hasAvailabilityWindow" /\ AllHaveEnd(boatId)) =>
          result = hasAnyAvailableWindow(
                       AsApiRanges(BookingsOf(BOOKINGS, boatId)),
                       scheduleStart, durationDays)
    /\ op = "isBookedForDate" =>
          result = isBooked(AsBookings(reservationsForBoat), KnownBoat, startDay)
    /\ op = "windowFits" =>
          result = computeWindowFits(AsBookings(reservationsForBoat), KnownBoat,
                       startDay, durationDays, scheduleStart, scheduleEnd)
    /\ op = "hasAnyAvailableWindow" =>
          result = hasAvailabilityWindow(AsBookings(reservationsForBoat),
                       KnownBoat, scheduleStart, durationDays)

\* isBooked was asked for the exclusive end day of the only range of a list.
C27_Witness ==
    /\ op = "isBooked"
    /\ boatId = KnownBoat
    /\ Len(BOOKINGS[KnownBoat]) = 1
    /\ AllHaveEnd(KnownBoat)
    /\ toISODate(startDay) = BOOKINGS[KnownBoat][1].end
    /\ result = FALSE

\* ------------------------------------------------------------------------
\* C24
\* ------------------------------------------------------------------------

\* Reference dates: the first 35 days from 2025-12-01 on (into January), at
\* midnight and later in the day.
RefDates == { <<d, t>> : d \in 0..34, t \in {0, 1} }

\* s is a Sunday at start of day, strictly after the day of ref and at most
\* 7 days after it; no Sunday lies in between; a week later for a Sunday.
SundayAfter(ref, s) ==
    /\ getDay(s) = 0
    /\ startOfDay(AtMidnight(s)) = s
    /\ s > ref[1]
    /\ s <= ref[1] + 7
    /\ \A d \in (ref[1] + 1)..(s - 1) : getDay(d) # 0
    /\ getDay(ref[1]) = 0 => s = ref[1] + 7

\* C24 as stated: nextSunday(ref) is the Sunday after ref, and it is the
\* window start whenever the start-date field is empty.
C24_Original ==
    /\ SundayAfter(now, nextSunday(now))
    /\ startDateStr = <<>> => scheduleStart = nextSunday(now)

\* C24: nextSunday(ref) is a Sunday at start of day, strictly after ref's day
\* and at most 7 days after it (ref + 7 days for a Sunday).  It is the window
\* start when the page is mounted and whenever the start-date field is
\* cleared; while the field stays empty, Past and Future move the window
\* start away from it by multiples of 14 days.
C24_NextSundayUntilShifted ==
    /\ \A ref \in RefDates : SundayAfter(ref, nextSunday(ref))
    /\ startDateStr = <<>> /\ scheduleStart = nextSunday(now)
    /\ [](/\ SundayAfter(now, nextSunday(now))
          /\ startDateStr = <<>> =>
                /\ getDay(scheduleStart) = 0
                /\ (scheduleStart - nextSunday(now)) % 14 = 0)
    /\ [][SetStartDate(<<>>) => scheduleStart' = nextSunday(now)]_vars

\* The session runs on a Sunday, the field is empty after a duration was
\* typed, and the window starts a week later.
C24_Witness ==
    /\ getDay(now[1]) = 0
    /\ startDateStr = <<>>
    /\ durationStr # <<>>
    /\ scheduleStart = now[1] + 7

\* ------------------------------------------------------------------------
\* C28
\* ------------------------------------------------------------------------

\* A valid start date is set and lies outside the visible window.
StartDateOutsideWindow ==
    /\ startDateStr # <<>>
    /\ \/ fromISODate(startDateStr) < scheduleStart
       \/ fromISODate(startDateStr) > scheduleEnd

C28_WitnessLong ==
    /\ StartDateOutsideWindow
    /\ durationDays = 3
    /\ boats = Fleet
    /\ reservations = <<>>

\* ------------------------------------------------------------------------
\* C21
\* ------------------------------------------------------------------------

\* The requests of the list whose effect run has not been cleaned up.
AliveRequests == { i \in 1..Len(inflight) : inflight[i].alive }

\* The step answers a request whose effect run has been cleaned up.
StaleAnswerStep ==
    /\ Len(inflight') < Len(inflight)
    /\ \/ AliveRequests = {}
       \/ \E i \in 1..Len(inflight') : inflight'[i].alive

\* C21: a schedule response is written to reservations only if it answers the
\* request sent for the current scheduleStart; the answer or the failure of
\* an earlier request changes neither reservations, errorMsg nor loading,
\* however window changes and answers interleave.
C21_StaleResponsesIgnored ==
    /\ [](/\ Cardinality(AliveRequests) <= 1
          /\ \A i \in AliveRequests :
                /\ i = Len(inflight)
                /\ inflight[i].start = toISODate(scheduleStart)
          /\ loading <=> AliveRequests # {})
    /\ [][reservations' # reservations =>
             /\ scheduleStart' = scheduleStart
             /\ \E i \in AliveRequests :
                  /\ inflight[i].start = toISODate(scheduleStart)
                  /\ reservations' \in AnswersFor(toISODate(scheduleStart))
                  /\ inflight' = Answered(inflight, i)]_vars
    /\ [][StaleAnswerStep => UNCHANGED <<reservations, errorMsg, loading>>]_vars

\* The window has moved twice since a request was answered with the
\* reservation of its own window; the answer of the first move's request has
\* just arrived and the page still waits for the second's.
C21_Witness ==
    /\ op = "scheduleResponse"
    /\ loading
    /\ Len(inflight) = 1
    /\ reservations # <<>>
    /\ reservations \notin AnswersFor(toISODate(scheduleStart))

\* ------------------------------------------------------------------------
\* C22
\* ------------------------------------------------------------------------

\* The login check answered with success and a user id.
LoggedIn(answer) ==
    /\ answer.got = "me"
    /\ answer.resOk /\ answer.dataOk /\ answer.userId

\* Every reservation request on the network follows, in the same call, a
\* login check that answered with success and a user id.
PostOnlyAfterLogin ==
    \A j \in 1..Len(netlog) :
        netlog[j].what = "POST /api/reservations/request" =>
            \E h \in 1..(j - 1) :
                /\ netlog[h].call = netlog[j].call
                /\ netlog[h].what = "me"
                /\ LoggedIn(netlog[h].answer)

\* A call whose login check did not succeed sent no reservation request.
NoPostAfterFailedLogin ==
    \A h \in 1..Len(netlog) :
        (netlog[h].what = "me" /\ ~LoggedIn(netlog[h].answer)) =>
            \A j \in 1..Len(netlog) :
                netlog[j].call = netlog[h].call =>
                    netlog[j].what # "POST /api/reservations/request"

\* A call of submitRequest has just finished at its login check.
FinishedAtLoginCheck ==
    /\ op = "finished"
    /\ netlog[Len(netlog)].what = "me"

\* C22 as stated: the reservation request is sent only after the login check
\* returned success with a user id; when the check fails no request is sent
\* and the dialog is closed; submitting is false once submitRequest finishes.
C22_Original ==
    /\ PostOnlyAfterLogin
    /\ NoPostAfterFailedLogin
    /\ FinishedAtLoginCheck => modalBoatId = NoBoat
    /\ op = "finished" => submitting = FALSE

\* C22, amended: as above, but the dialog is closed (and the account page
\* opened) only when the login check was answered without success or user
\* id; when the check got no answer the failure is shown, the page stays and
\* the dialog is left as it was.
C22_PostOnlyAfterLogin ==
    /\ [](/\ PostOnlyAfterLogin
          /\ NoPostAfterFailedLogin
          /\ (FinishedAtLoginCheck /\ result # Rejected) =>
                 /\ modalBoatId = NoBoat
                 /\ location = "/account"
                 /\ submitMsg = LoginMsg
          /\ (FinishedAtLoginCheck /\ result = Rejected) =>
                 /\ location = "/"
                 /\ submitMsg = FailedMsg
          /\ op = "finished" => submitting = FALSE)
    /\ [][(op' = "finished" /\ result' = Rejected) =>
             modalBoatId' = modalBoatId]_vars

\* The login check of the only call got no answer and the dialog is still
\* open.
C22_Witness ==
    /\ FinishedAtLoginCheck
    /\ result = Rejected
    /\ Len(netlog) = 2
    /\ modalBoatId # NoBoat

\* A reservation request was answered with success after a login check with
\* a user id.
C22_WitnessSubmitted ==
    /\ op = "finished"
    /\ submitMsg = SubmittedMsg
    /\ Len(netlog) = 4
    /\ PostOnlyAfterLogin

\* ------------------------------------------------------------------------
\* C29
\* ------------------------------------------------------------------------

\* Reservation r holds its boat at midnight or later on day d.
OccupiesDay(r, d) ==
    \E t \in {0, 1} :
        /\ ~DateLess(<<d, t>>, r.startDate)
        /\ DateLess(<<d, t>>, r.endExclusive)

\* The loaded reservations of boat b that overlap day d, by position.
Occupants(b, d) ==
    { i \in 1..Len(calReservations) :
        /\ calReservations[i].boatId = b
        /\ OccupiesDay(calReservations[i], d) }

\* BLOCKED > APPROVED > PENDING > DENIED > CANCELLED > any other status.
StatusOrder == <<"CANCELLED", "DENIED", "PENDING", "APPROVED", "BLOCKED">>
StatusRank(st) ==
    IF \E n \in 1..Len(StatusOrder) : StatusOrder[n] = toUpperCase(st)
    THEN CHOOSE n \in 1..Len(StatusOrder) : StatusOrder[n] = toUpperCase(st)
    ELSE 0

\* The occupants no other occupant outranks.
TopOccupants(b, d) ==
    { i \in Occupants(b, d) :
        \A j \in Occupants(b, d) :
            StatusRank(calReservations[j].status)
                <= StatusRank(calReservations[i].status) }

\* What the cell of boat b and day d shows.
Shown(b, d) == MapGet(cellMap(calReservations, dayList), CellKey(b, d))

\* C29: each cell of the admin calendar shows, among the loaded reservations
\* of its boat that overlap its day, the first in list order of those with the
\* highest status priority, and nothing when no reservation overlaps.
C29_CellShowsTopPriority ==
    \A n \in 1..Len(Fleet), x \in 1..Len(dayList) :
        LET b == Fleet[n]
            d == dayList[x]
        IN  IF Occupants(b, d) = {}
            THEN Shown(b, d) = Undefined
            ELSE \E i \in TopOccupants(b, d) :
                    /\ \A j \in TopOccupants(b, d) : i <= j
                    /\ Shown(b, d) = calReservations[i]

\* Three reservations overlap one day of a boat: the second and the third
\* share the highest priority, and the second is shown.
C29_Witness ==
    /\ calReservations = <<CalPool[4], CalPool[3], CalPool[1]>>
    /\ Occupants(Fleet[1], Jan10 + 1) = {1, 2, 3}
    /\ TopOccupants(Fleet[1], Jan10 + 1) = {2, 3}
    /\ Shown(Fleet[1], Jan10 + 1) = CalPool[3]

\* ------------------------------------------------------------------------
\* C23
\* ------------------------------------------------------------------------

\* The step is a click on a cell.
CellClicked == op' \in {"block", "unblock", "unblock cancelled", "alert"}

\* C23: a click on a cell sends a block-creation request only when no loaded
\* reservation occupies that boat and day, a block-removal request only for
\* the reservation shown in the cell and only when it is BLOCKED, and no
\* mutating request for a cell that shows any other status.
C23_ClickRequests ==
    [][CellClicked =>
         /\ result'.method = "POST" =>
               /\ Occupants(boatId', startDay') = {}
               /\ result'.boatId = boatId'
               /\ result'.startDate = dateKey(startDay')
         /\ result'.method = "DELETE" =>
               /\ Occupants(boatId', startDay') # {}
               /\ toUpperCase(Shown(boatId', startDay').status) = "BLOCKED"
               /\ result'.id = Shown(boatId', startDay').id
         /\ (/\ Occupants(boatId', startDay') # {}
             /\ toUpperCase(Shown(boatId', startDay').status) # "BLOCKED")
               => result' = NoRequest]_vars

\* A block has been removed from a cell that showed it over an approved
\* reservation of the same day.
C23_Witness ==
    /\ op = "unblock"
    /\ result = [method |-> "DELETE", id |-> "r2"]
    /\ boatId = Fleet[1]
    /\ startDay = Jan10 + 2

\* An empty cell has been blocked for three days.
C23_WitnessBlock ==
    /\ op = "block"
    /\ result.method = "POST"
    /\ result.days = 3
    /\ startDay = Jan10 + 1

\* A click on a cell that shows an approved reservation has sent nothing.
C23_WitnessAlert ==
    /\ op = "alert"
    /\ result = NoRequest
    /\ startDay = Jan10 + 1
    /\ boatId = Fleet[1]

\* ------------------------------------------------------------------------
\* C30
\* ------------------------------------------------------------------------

\* The status an action leaves.
StatusAfter(action) == IF action = "approve" THEN "APPROVED" ELSE "DENIED"

\* C30: a successful approve or deny of reservation id sets the status of the
\* items with that id and leaves every other item and every other field as
\* it was; a failed action leaves the items as they were and sets the error
\* message; busyId is cleared in both cases; without a token act does
\* nothing.
C30_ActChangesOneStatus ==
    /\ [][op' = "act ok" =>
            /\ Len(items') = Len(items)
            /\ \A j \in 1..Len(items) :
                  IF items[j].id = result'.id
                  THEN /\ items'[j].status = StatusAfter(result'.action)
                       /\ DOMAIN items'[j] = DOMAIN items[j]
                       /\ \A f \in DOMAIN items[j] \ {"status"} :
                             items'[j][f] = items[j][f]
                  ELSE items'[j] = items[j]
            /\ busyId' = ""
            /\ error' = error]_vars
    /\ [][op' = "act failed" =>
            /\ items' = items
            /\ error' # ""
            /\ busyId' = ""]_vars
    /\ [][(op' = "act ignored" \/ (token = "" /\ op' = "act")) =>
            /\ token = ""
            /\ UNCHANGED <<items, busyId, error, token, acting>>]_vars

\* The second of three items has just been denied; the others are as loaded.
C30_Witness ==
    /\ op = "act ok"
    /\ result = [id |-> "i1", action |-> "deny"]
    /\ Len(items) = 3
    /\ items[1].status = "APPROVED"
    /\ items[2] = [id |-> "i1", status |-> "DENIED", boatName |-> "Excess 11"]
    /\ items[3].status = "CANCELLED"

\* act has been called without a token while a call made before the logout
\* was unfinished.
C30_WitnessNoToken ==
    /\ op = "act ignored"
    /\ token = ""
    /\ Len(acting) = 1

====
